---- MODULE Spec2Model ----
(***************************************************************************)
(* The connection broker of pi-elixir (extensions/tidewave-client.ts):     *)
(* resolveUrl with its override, cache, native discovery and embedded      *)
(* fallback, the embedded child's event handlers, and the module state     *)
(* they share.  One asynchronous resolveUrl call is a process with one     *)
(* suspension point (the probes of discoverNativeTidewave); every          *)
(* synchronous stretch of code between two suspension points is one        *)
(* action.                                                                 *)
(***************************************************************************)
EXTENDS Integers, Sequences, FiniteSets, TLC

----------------------------------------------------------------------------
(* Bounds of the model *)

\* number of probed ports (the code probes ten: 4000..4009)
NumPorts == 2
\* children spawned over a run
MaxProcs == 2
\* clock readings go up to MaxEpoch * CACHE_TTL
MaxEpoch == 1
\* tool calls that reach callTool over a run
MaxRequests == 2

----------------------------------------------------------------------------
(* Program constants and value domains *)

CACHE_TTL == 30000
BasePort == 4000

PROBE_PORTS == [i \in 1..NumPorts |-> BasePort + (i - 1)]

Dirs == {"/project", "/other"}
OneDir == {"/project"}
Names == {"my_app", "other_app"}
ReadyPorts == {4041, 4242}
Calls == {1, 2}

\* JavaScript null, for object-valued and for string-valued expressions
JsNull == [null |-> TRUE]
NullStr == "<null>"
Truthy(s) == s \notin {NullStr, ""}

OverrideUrl == "http://custom:9999/mcp"

\* Date.now() is sampled on both sides of every multiple of the TTL
Times == {0} \cup UNION {{k * CACHE_TTL - 1, k * CACHE_TTL} : k \in 1..MaxEpoch}

----------------------------------------------------------------------------
(* Inputs: mix.exs, HTTP answers, stdout chunks *)

\* mix.exs as far as readAppName can tell: unreadable, or the names of the
\* successive `app: :name` occurrences in its text
MixFiles ==
  {[readable |-> FALSE, apps |-> <<>>], [readable |-> TRUE, apps |-> <<>>]}
    \cup {[readable |-> TRUE, apps |-> <<n>>] : n \in Names}
    \cup {[readable |-> TRUE, apps |-> <<nm[1], nm[2]>>] :
            nm \in {x \in Names \X Names : x[1] # x[2]}}

\* mix.exs unreadable, or naming my_app
OwnMixFiles == {f \in MixFiles : f.apps \in {<<>>, <<"my_app">>} /\ (f.readable <=> f.apps # <<>>)}

readAppName(file) ==
  IF ~file.readable THEN NullStr
  ELSE IF Len(file.apps) = 0 THEN NullStr
  ELSE file.apps[1]

\* what a GET <origin>/tidewave/config may come to: fetch or resp.json() threw
\* (refused, timed out, no JSON), the status was not ok, or a config arrived
Responses ==
  {[outcome |-> o, project_name |-> ""] : o \in {"threw", "not_ok"}}
    \cup {[outcome |-> "ok", project_name |-> n] : n \in Names}

\* no answer, or the answer of my_app
OwnResponses == {r \in Responses : r.outcome = "threw" \/ r.project_name = "my_app"}

fetchConfig(resp) ==
  IF resp.outcome = "ok" THEN [project_name |-> resp.project_name] ELSE JsNull

ProbeUrl(port) == "http://localhost:" \o ToString(port) \o "/tidewave/mcp"

\* one probe of discoverNativeTidewave, once its fetchConfig has settled
Probe(port, resp) ==
  LET config == fetchConfig(resp)
  IN IF config # JsNull THEN [url |-> ProbeUrl(port), config |-> config] ELSE JsNull

Pending == [pending |-> TRUE]

\* a stdout chunk is a short run of tokens: the marker, a port=<digits>, other text
Marker == [tok |-> "PI_MCP_READY", n |-> 0]
Text == [tok |-> "text", n |-> 0]
PortEq(p) == [tok |-> "port=", n |-> p]

\* the line the child prints when it listens on port p, delivered as one chunk
ReadinessLine(p) == <<Marker, PortEq(p), Text>>

\* the chunks a child may deliver when it announces ports from `ports`: other
\* output, pieces of the readiness line, the line, and the line behind output
\* that itself holds a port=<digits>
ChunksOver(ports) ==
  {<<Text>>, <<Marker>>}
    \cup {<<PortEq(p), Text>> : p \in ports}
    \cup {ReadinessLine(p) : p \in ports}
    \cup {<<PortEq(pq[1])>> \o ReadinessLine(pq[2]) :
            pq \in {x \in ports \X ports : x[1] # x[2]}}

\* text.includes('PI_MCP_READY')
HasMarker(chunk) == \E i \in 1..Len(chunk) : chunk[i].tok = "PI_MCP_READY"

\* text.match(/port=(\d+)/): the first occurrence, or <<>> for no match
PortMatch(chunk) ==
  LET ports == SelectSeq(chunk, LAMBDA t : t.tok = "port=")
  IN IF Len(ports) = 0 THEN <<>> ELSE <<ports[1].n>>

EmbeddedUrl(port) == "http://127.0.0.1:" \o ToString(port) \o "/mcp"

----------------------------------------------------------------------------
(* State *)

VARIABLES
  env,                \* process.env: TIDEWAVE_URL, PI_ELIXIR_DISABLE_EMBEDDED
  now,                \* Date.now()
  connectionCache,    \* Map cwd -> CachedConnection
  embeddedProcesses,  \* Map cwd -> EmbeddedProcess (index into entries)
  embeddedFailed,     \* Set of cwd
  entries,            \* every EmbeddedProcess object created, in spawn order
  onStatusChange,     \* the status callback slot: "null" or "set"
  statusCalls,        \* invocations of the status callback made by the last step
  returned,           \* the resolveUrl call the last step completed, with its value
  calls,              \* the resolveUrl calls in flight
  requestId,          \* the JSON-RPC id counter of callTool
  toolResult,         \* what the tool call that completed in this step returned
  history,            \* history variable, switched on by SpecHistory: per cwd,
                      \* the entry resolveUrl cached last, and the cwds whose
                      \* entry a readiness event has deleted
  \* the embedded service, scripts/embedded_tidewave.exs
  http_server,        \* the transport chosen at boot, "none" before
  actual_port,        \* the port the script reports
  listener,           \* the listening socket: its interface and port
  logger,             \* state of the Pi.MCP.Logger GenServer
  appended,           \* history variable: every entry cast since the last clear
  handlers,           \* the processes that serve requests, with their mailboxes
  units,              \* the processes project_eval has spawned
  exchanges           \* the requests received, each with its response

\* the state of the extension
clientVars ==
  <<env, now, connectionCache, embeddedProcesses, embeddedFailed, entries,
    onStatusChange, statusCalls, returned, calls, requestId, toolResult,
    history>>

\* the state of the embedded service
beamVars ==
  <<http_server, actual_port, listener, logger, appended, handlers, units, exchanges>>

vars == <<clientVars, beamVars>>

\* new Map()
EmptyMap == [k \in {} |-> JsNull]

\* a slot with no call in it; a resolveUrl call in flight holds its cwd, the app
\* name it read, what its probes came to and the order in which they settled; a
\* callTool in flight holds its url and, once fetch has resolved, the response
IdleCall ==
  [pc |-> "idle", cwd |-> "", appName |-> NullStr, probes |-> <<>>, order |-> <<>>,
   url |-> "", resp |-> JsNull]

\* the capacity of the log buffer in the model; the script's is 1024
LogCapacity == 3

\* Pi.MCP.Logger.init, line 43
Logger_init == [logs |-> <<>>, size |-> 0, max |-> LogCapacity]

\* the embedded service when the script starts: no socket is open
BeamInit ==
  /\ http_server = "none"
  /\ actual_port = 0
  /\ listener = [ip |-> "none", port |-> 0, accepting |-> FALSE]
  /\ logger = Logger_init
  /\ appended = <<>>
  /\ handlers = <<>>
  /\ units = <<>>
  /\ exchanges = <<>>

Init ==
  /\ BeamInit
  /\ env = [TIDEWAVE_URL |-> "", PI_ELIXIR_DISABLE_EMBEDDED |-> ""]
  /\ now = 0
  /\ connectionCache = EmptyMap
  /\ embeddedProcesses = EmptyMap
  /\ embeddedFailed = {}
  /\ entries = <<>>
  /\ onStatusChange = "null"
  /\ statusCalls = <<>>
  /\ returned = <<>>
  /\ requestId = 0
  /\ toolResult = <<>>
  /\ history = [on |-> FALSE, lastCached |-> EmptyMap, invalidated |-> {}]
  /\ calls = [c \in Calls |-> IdleCall]

----------------------------------------------------------------------------
(* Map helpers *)

MapHas(m, k) == k \in DOMAIN m
MapSet(m, k, v) == [x \in (DOMAIN m) \cup {k} |-> IF x = k THEN v ELSE m[x]]
MapDelete(m, k) == [x \in (DOMAIN m) \ {k} |-> m[x]]

\* onStatusChange?.(cwd, kind)
Notify(cwd, kind) ==
  IF onStatusChange = "set" THEN <<[cwd |-> cwd, kind |-> kind]>> ELSE <<>>

----------------------------------------------------------------------------
(* discoverNativeTidewave *)

\* the results in the order in which the fetches settled
PromiseAll_SettleOrder(probes, order) == [k \in 1..Len(order) |-> probes[order[k]]]

\* await Promise.all(probes), line 108: the results come in the order of the
\* promises, that of PROBE_PORTS, whatever the order in which they settled
PromiseAll(probes, order) == probes

\* discovery that falls back to the first responder when no name matches
discoverNativeTidewave_AcceptAny(appName, probes, order) ==
  LET results == SelectSeq(probes, LAMBDA r : r # JsNull)
      matches == SelectSeq(results, LAMBDA r : r.config.project_name = appName)
  IN IF Len(results) = 0 THEN NullStr
     ELSE IF Len(matches) > 0 THEN matches[1].url
     ELSE results[1].url

\* lines 108-119, the part after the await
discoverNativeTidewave(appName, probes, order) ==
  LET results == SelectSeq(PromiseAll(probes, order), LAMBDA r : r # JsNull)
      matches == SelectSeq(results, LAMBDA r : r.config.project_name = appName)
  IN IF Len(results) = 0 THEN NullStr
     ELSE IF Truthy(appName)
       THEN (IF Len(matches) = 0 THEN NullStr ELSE matches[1].url)
       ELSE results[1].url

----------------------------------------------------------------------------
(* resolveUrl *)

\* a cache whose entries are never fresh
CacheFresh_Never(cached, t) == FALSE

\* a cache whose entries are still fresh at the age of CACHE_TTL
CacheFresh_Inclusive(cached, t) == t - cached.timestamp <= CACHE_TTL

\* Date.now() - cached.timestamp < CACHE_TTL
CacheFresh(cached, t) == t - cached.timestamp < CACHE_TTL

\* if (process.env.TIDEWAVE_URL)
HasOverride(e) == Truthy(e.TIDEWAVE_URL)

\* the flag compared with 'true' instead of '1'
EmbeddedDisabled_True(e) == e.PI_ELIXIR_DISABLE_EMBEDDED = "true"

\* process.env.PI_ELIXIR_DISABLE_EMBEDDED === '1'
EmbeddedDisabled(e) == e.PI_ELIXIR_DISABLE_EMBEDDED = "1"

Conn(url, kind) == [url |-> url, kind |-> kind]
Cached(url, kind, t) == [url |-> url, kind |-> kind, timestamp |-> t]

CanStart(c) == calls[c].pc = "idle"

\* the call c for cwd d completes with the value ret; the record also says
\* whether the call had issued probes and, if so, the app name it read, what its
\* probes came to and in which order, and whether the call spawned a child
Return(c, d, ret, spawned) ==
  <<[call |-> c, cwd |-> d, ret |-> ret, probed |-> calls[c].pc = "probing",
     appName |-> calls[c].appName, probes |-> calls[c].probes,
     order |-> calls[c].order, spawned |-> spawned]>>

\* the override answered and cached like a discovered service
ResolveUrlOverride_Caching(c, d) ==
  /\ calls[c].pc = "idle"
  /\ Truthy(env.TIDEWAVE_URL)
  /\ connectionCache' = [x \in (DOMAIN connectionCache) \cup {d} |->
        IF x = d THEN [url |-> env.TIDEWAVE_URL, kind |-> "native", timestamp |-> now]
        ELSE connectionCache[x]]
  /\ returned' = <<[call |-> c, cwd |-> d, ret |-> [url |-> env.TIDEWAVE_URL, kind |-> "native"],
                    probed |-> FALSE, appName |-> NullStr, probes |-> <<>>,
                    order |-> <<>>, spawned |-> FALSE]>>
  /\ statusCalls' = <<>>
  /\ toolResult' = <<>>
  /\ UNCHANGED beamVars
  /\ UNCHANGED <<env, now, embeddedProcesses, embeddedFailed, entries,
                 onStatusChange, calls, history, requestId>>

\* lines 217-219: the override wins
ResolveUrlOverride(c, d) ==
  /\ CanStart(c)
  /\ HasOverride(env)
  /\ returned' = Return(c, d, Conn(env.TIDEWAVE_URL, "native"), FALSE)
  /\ statusCalls' = <<>>
  /\ toolResult' = <<>>
  /\ UNCHANGED beamVars
  /\ UNCHANGED <<env, now, connectionCache, embeddedProcesses, embeddedFailed,
                 entries, onStatusChange, calls, history, requestId>>

\* lines 221-224: a cache entry younger than the TTL is returned
ResolveUrlCached(c, d) ==
  /\ CanStart(c)
  /\ ~HasOverride(env)
  /\ MapHas(connectionCache, d)
  /\ CacheFresh(connectionCache[d], now)
  /\ returned' = Return(c, d, Conn(connectionCache[d].url, connectionCache[d].kind), FALSE)
  /\ statusCalls' = <<>>
  /\ toolResult' = <<>>
  /\ UNCHANGED beamVars
  /\ UNCHANGED <<env, now, connectionCache, embeddedProcesses, embeddedFailed,
                 entries, onStatusChange, calls, history, requestId>>

\* lines 226, 100-106: readAppName, then one fetch per port is issued
ResolveUrlProbe(c, d, file) ==
  /\ CanStart(c)
  /\ ~HasOverride(env)
  /\ ~(MapHas(connectionCache, d) /\ CacheFresh(connectionCache[d], now))
  /\ calls' = [calls EXCEPT ![c] =
                 [pc |-> "probing", cwd |-> d, appName |-> readAppName(file),
                  probes |-> [i \in 1..NumPorts |-> Pending], order |-> <<>>,
                  url |-> "", resp |-> JsNull]]
  /\ statusCalls' = <<>>
  /\ returned' = <<>>
  /\ toolResult' = <<>>
  /\ UNCHANGED beamVars
  /\ UNCHANGED <<env, now, connectionCache, embeddedProcesses, embeddedFailed,
                 entries, onStatusChange, history, requestId>>

\* lines 102-106, 75-85: the fetch for the i-th port settles
FetchConfigSettles(c, i, resp) ==
  /\ calls[c].pc = "probing"
  /\ calls[c].probes[i] = Pending
  /\ calls' = [calls EXCEPT ![c].probes[i] = Probe(PROBE_PORTS[i], resp),
                             ![c].order = Append(@, i)]
  /\ statusCalls' = <<>>
  /\ returned' = <<>>
  /\ toolResult' = <<>>
  /\ UNCHANGED beamVars
  /\ UNCHANGED <<env, now, connectionCache, embeddedProcesses, embeddedFailed,
                 entries, onStatusChange, history, requestId>>

AllSettled(c) == \A i \in 1..NumPorts : calls[c].probes[i] # Pending

\* the EmbeddedProcess object a spawn creates (line 153)
NewEntry(d) ==
  [cwd |-> d, url |-> "", port |-> 0, ready |-> FALSE,
   proc |-> [status |-> "running", killed |-> FALSE]]

\* embeddedProcesses.get(cwd), or JsNull
GetEmbedded(d) ==
  IF MapHas(embeddedProcesses, d) THEN entries[embeddedProcesses[d]] ELSE JsNull

\* a failed set that is never consulted
HasFailed_Never(d) == FALSE

\* embeddedFailed.has(cwd), line 233
HasFailed(d) == d \in embeddedFailed

\* a record counted as ready as soon as it exists
EmbeddedReady_AnyRecord(d) == MapHas(embeddedProcesses, d)

\* embedded?.ready
EmbeddedReady(d) == MapHas(embeddedProcesses, d) /\ entries[embeddedProcesses[d]].ready

\* startEmbeddedInBackground without its early return
SpawnNeeded_Always(d) == TRUE

\* startEmbeddedInBackground that never spawns
SpawnNeeded_Never(d) == FALSE

\* startEmbeddedInBackground returns early when a record exists (line 145)
SpawnNeeded(d) == ~MapHas(embeddedProcesses, d)

\* the history after resolveUrl has cached `cached` for d
Remember(d, cached) ==
  IF history.on THEN [history EXCEPT !.lastCached = MapSet(@, d, cached)] ELSE history

\* lines 108-119 and 227-245: the continuation after the probes
ResolveUrlFinish(c) ==
  LET d == calls[c].cwd
      nativeUrl == discoverNativeTidewave(calls[c].appName, calls[c].probes, calls[c].order)
  IN
  /\ calls[c].pc = "probing"
  /\ AllSettled(c)
  /\ statusCalls' = <<>>
  /\ calls' = [calls EXCEPT ![c] = IdleCall]
  /\ IF Truthy(nativeUrl)
       THEN /\ connectionCache' = MapSet(connectionCache, d, Cached(nativeUrl, "native", now))
            /\ history' = Remember(d, Cached(nativeUrl, "native", now))
            /\ returned' = Return(c, d, Conn(nativeUrl, "native"), FALSE)
            /\ UNCHANGED <<embeddedProcesses, entries>>
     ELSE IF EmbeddedDisabled(env) \/ HasFailed(d)
       THEN /\ returned' = Return(c, d, JsNull, FALSE)
            /\ UNCHANGED <<connectionCache, embeddedProcesses, entries, history>>
     ELSE IF EmbeddedReady(d)
       THEN /\ connectionCache' =
                 MapSet(connectionCache, d, Cached(GetEmbedded(d).url, "embedded", now))
            /\ history' = Remember(d, Cached(GetEmbedded(d).url, "embedded", now))
            /\ returned' = Return(c, d, Conn(GetEmbedded(d).url, "embedded"), FALSE)
            /\ UNCHANGED <<embeddedProcesses, entries>>
     ELSE IF SpawnNeeded(d)
       THEN /\ Len(entries) < MaxProcs
            /\ entries' = Append(entries, NewEntry(d))
            /\ embeddedProcesses' = MapSet(embeddedProcesses, d, Len(entries) + 1)
            /\ returned' = Return(c, d, JsNull, TRUE)
            /\ UNCHANGED <<connectionCache, history>>
     ELSE /\ returned' = Return(c, d, JsNull, FALSE)
          /\ UNCHANGED <<connectionCache, embeddedProcesses, entries, history>>
  /\ toolResult' = <<>>
  /\ UNCHANGED beamVars
  /\ UNCHANGED <<env, now, embeddedFailed, onStatusChange, requestId>>

\* lines 248-250
invalidateCache(d) ==
  /\ connectionCache' = MapDelete(connectionCache, d)
  /\ statusCalls' = <<>>
  /\ returned' = <<>>
  /\ toolResult' = <<>>
  /\ UNCHANGED beamVars
  /\ UNCHANGED <<env, now, embeddedProcesses, embeddedFailed, entries,
                 onStatusChange, calls, history, requestId>>

\* a connection state that looks at the process record before the cache
getConnectionKind_RecordFirst(d) ==
  IF EmbeddedReady(d) THEN "embedded"
  ELSE IF MapHas(embeddedProcesses, d) THEN "starting"
  ELSE IF MapHas(connectionCache, d) THEN connectionCache[d].kind
  ELSE "null"

\* lines 252-259
getConnectionKind(d) ==
  IF MapHas(connectionCache, d) THEN connectionCache[d].kind
  ELSE IF EmbeddedReady(d) THEN "embedded"
  ELSE IF MapHas(embeddedProcesses, d) THEN "starting"
  ELSE "null"

----------------------------------------------------------------------------
(* The embedded child's event handlers (startEmbeddedInBackground) *)

\* a readiness chunk that flips the flag and records no endpoint
MarkReady_NoEndpoint(entry, chunk) == [entry EXCEPT !.ready = TRUE]

\* lines 159-164: what the readiness chunk makes of the entry
MarkReady(entry, chunk) ==
  LET portMatch == PortMatch(chunk)
  IN IF Len(portMatch) > 0
       THEN [entry EXCEPT !.port = portMatch[1], !.url = EmbeddedUrl(portMatch[1]),
                          !.ready = TRUE]
       ELSE [entry EXCEPT !.ready = TRUE]

\* line 158
IsReadiness(entry, chunk) == ~entry.ready /\ HasMarker(chunk)

\* the history after a readiness event found an entry for d in the cache
RememberInvalidated(d) ==
  IF history.on /\ MapHas(connectionCache, d)
    THEN [history EXCEPT !.invalidated = @ \cup {d}]
    ELSE history

\* stdout delivers data while the child lives
StdoutOpen(entry) == entry.proc.status = "running"

\* lines 156-168: proc.stdout.on('data')
StdoutData(p, chunk) ==
  LET entry == entries[p]
  IN
  /\ p \in 1..Len(entries)
  /\ StdoutOpen(entry)
  /\ IF IsReadiness(entry, chunk)
       THEN /\ entries' = [entries EXCEPT ![p] = MarkReady(entry, chunk)]
            /\ connectionCache' = MapDelete(connectionCache, entry.cwd)
            /\ history' = RememberInvalidated(entry.cwd)
            /\ statusCalls' = Notify(entry.cwd, "embedded")
       ELSE /\ statusCalls' = <<>>
            /\ UNCHANGED <<entries, connectionCache, history>>
  /\ returned' = <<>>
  /\ toolResult' = <<>>
  /\ UNCHANGED beamVars
  /\ UNCHANGED <<env, now, embeddedProcesses, embeddedFailed, onStatusChange, calls, requestId>>

\* lines 170-174: proc.on('error'), a failed spawn
ProcError(p) ==
  LET entry == entries[p]
  IN
  /\ p \in 1..Len(entries)
  /\ entry.proc.status = "running"
  /\ entries' = [entries EXCEPT ![p].proc.status = "errored"]
  /\ embeddedProcesses' = MapDelete(embeddedProcesses, entry.cwd)
  /\ embeddedFailed' = embeddedFailed \cup {entry.cwd}
  /\ statusCalls' = Notify(entry.cwd, "null")
  /\ returned' = <<>>
  /\ toolResult' = <<>>
  /\ UNCHANGED beamVars
  /\ UNCHANGED <<env, now, connectionCache, onStatusChange, calls, history, requestId>>

\* an exit handler that clears the whole cache
ProcExit_ClearsCache(p) ==
  /\ p \in 1..Len(entries)
  /\ entries[p].proc.status \in {"running", "errored"}
  /\ entries' = [entries EXCEPT ![p] = [cwd |-> entries[p].cwd, url |-> "", port |-> 0,
                                        ready |-> FALSE,
                                        proc |-> [status |-> "exited", killed |-> FALSE]]]
  /\ embeddedProcesses' = MapDelete(embeddedProcesses, entries[p].cwd)
  /\ connectionCache' = EmptyMap
  /\ embeddedFailed' = IF ~entries[p].ready THEN embeddedFailed \cup {entries[p].cwd}
                       ELSE embeddedFailed
  /\ statusCalls' = Notify(entries[p].cwd, "null")
  /\ returned' = <<>>
  /\ toolResult' = <<>>
  /\ UNCHANGED beamVars
  /\ UNCHANGED <<env, now, onStatusChange, calls, history, requestId>>

\* after 'exit' no handler of the child runs again and no Map holds its entry:
\* the entry is garbage, kept as a tombstone
Tombstone(entry) ==
  [cwd |-> entry.cwd, url |-> "", port |-> 0, ready |-> FALSE,
   proc |-> [status |-> "exited", killed |-> FALSE]]

\* an exit handler that does what the error handler does: the cache is left alone
ProcExit_KeepsCache(p) ==
  /\ p \in 1..Len(entries)
  /\ entries[p].proc.status \in {"running", "errored"}
  /\ entries' = [entries EXCEPT ![p] = Tombstone(entries[p])]
  /\ embeddedProcesses' = MapDelete(embeddedProcesses, entries[p].cwd)
  /\ embeddedFailed' = embeddedFailed \cup {entries[p].cwd}
  /\ statusCalls' = Notify(entries[p].cwd, "null")
  /\ returned' = <<>>
  /\ toolResult' = <<>>
  /\ UNCHANGED beamVars
  /\ UNCHANGED <<env, now, connectionCache, onStatusChange, calls, history, requestId>>

\* lines 176-184: proc.on('exit'); it may or may not follow an 'error'
ProcExit(p) ==
  LET entry == entries[p]
      wasReady == entry.ready
  IN
  /\ p \in 1..Len(entries)
  /\ entry.proc.status \in {"running", "errored"}
  /\ entries' = [entries EXCEPT ![p] = Tombstone(entry)]
  /\ embeddedProcesses' = MapDelete(embeddedProcesses, entry.cwd)
  /\ connectionCache' = MapDelete(connectionCache, entry.cwd)
  /\ embeddedFailed' = IF ~wasReady THEN embeddedFailed \cup {entry.cwd} ELSE embeddedFailed
  /\ statusCalls' = Notify(entry.cwd, "null")
  /\ returned' = <<>>
  /\ toolResult' = <<>>
  /\ UNCHANGED beamVars
  /\ UNCHANGED <<env, now, onStatusChange, calls, history, requestId>>

\* lines 187-199: stopEmbedded for every key of embeddedProcesses
stopAllEmbedded ==
  /\ entries' = [p \in 1..Len(entries) |->
                   IF \E d \in DOMAIN embeddedProcesses : embeddedProcesses[d] = p
                     THEN [entries[p] EXCEPT !.proc.killed = TRUE]
                     ELSE entries[p]]
  /\ embeddedProcesses' = EmptyMap
  /\ statusCalls' = <<>>
  /\ returned' = <<>>
  /\ toolResult' = <<>>
  /\ UNCHANGED beamVars
  /\ UNCHANGED <<env, now, connectionCache, embeddedFailed, onStatusChange, calls, history,
                 requestId>>

\* lines 139-141
setStatusCallback ==
  /\ onStatusChange' = "set"
  /\ statusCalls' = <<>>
  /\ returned' = <<>>
  /\ toolResult' = <<>>
  /\ UNCHANGED beamVars
  /\ UNCHANGED <<env, now, connectionCache, embeddedProcesses, embeddedFailed,
                 entries, calls, history, requestId>>

----------------------------------------------------------------------------
(* The environment: process.env and the clock *)

EnvValues ==
  [TIDEWAVE_URL : {"", OverrideUrl}, PI_ELIXIR_DISABLE_EMBEDDED : {"", "1"}]

SetEnv(e) ==
  /\ e \in EnvValues
  /\ e # env
  /\ env' = e
  /\ statusCalls' = <<>>
  /\ returned' = <<>>
  /\ toolResult' = <<>>
  /\ UNCHANGED beamVars
  /\ UNCHANGED <<now, connectionCache, embeddedProcesses, embeddedFailed, entries,
                 onStatusChange, calls, history, requestId>>

Tick(t) ==
  /\ t \in Times
  /\ t > now
  /\ now' = t
  /\ statusCalls' = <<>>
  /\ returned' = <<>>
  /\ toolResult' = <<>>
  /\ UNCHANGED beamVars
  /\ UNCHANGED <<env, connectionCache, embeddedProcesses, embeddedFailed, entries,
                 onStatusChange, calls, history, requestId>>

----------------------------------------------------------------------------
(* The tool call: bridgeTool's execute and callTool *)

\* what err.message may be when fetch rejects: the network failed, or the
\* caller's AbortSignal fired
NetworkError == "fetch failed"
AbortError == "This operation was aborted"

\* the bodies an answer to the POST may carry: no JSON, the JSON null, a JSON-RPC
\* error, an empty object, results with text and other content, with and
\* without isError, and a result whose content is no array
Bodies ==
  {[kind |-> "invalid"], [kind |-> "null"], [kind |-> "empty"],
   [kind |-> "error", code |-> -32601, message |-> "Method not found"],
   [kind |-> "bad_content"]}
    \cup {[kind |-> "result", content |-> cs, isError |-> e] :
            cs \in {<<>>, <<[type |-> "text", text |-> "2"]>>,
                    <<[type |-> "text", text |-> "a"], [type |-> "image", text |-> ""],
                      [type |-> "text", text |-> "b"]>>},
            e \in {"undefined", "true", "false"}}

\* what the fetch of callTool may come to
PostOutcomes ==
  {[kind |-> "threw", message |-> m] : m \in {NetworkError, AbortError}}
    \cup {[kind |-> "response", status |-> st, body |-> b] : st \in {200, 502}, b \in Bodies}

\* .join('\n')
RECURSIVE Join(_)
Join(texts) ==
  IF Len(texts) = 0 THEN ""
  ELSE IF Len(texts) = 1 THEN texts[1]
  ELSE texts[1] \o "\n" \o Join(Tail(texts))

\* the text of a content array whose elements are not read: type and text are
\* taken from each element, so the elements may be anything
TextOf(content) ==
  LET texts == SelectSeq(content, LAMBDA c : c.type = "text")
  IN Join([i \in 1..Len(texts) |-> texts[i].text])

\* lines 37-43: the catch around fetch
CouldNotReach(url, msg) ==
  [threw |-> FALSE, isError |-> TRUE,
   text |-> "Could not reach BEAM at " \o url \o " (" \o msg
              \o "). Is the Phoenix server running?"]

\* lines 46-66: callTool from resp.json() on; reading a property of null and
\* calling filter on something that is no array throw a TypeError, which nothing
\* catches
AfterFetch(resp) ==
  LET body == resp.body
  IN IF body.kind = "invalid"
       THEN [threw |-> FALSE, isError |-> TRUE,
             text |-> "BEAM returned invalid response (HTTP " \o ToString(resp.status)
                        \o "). The server may be starting up or misconfigured."]
     ELSE IF body.kind \in {"null", "bad_content"}
       THEN [threw |-> TRUE, isError |-> FALSE, text |-> "TypeError"]
     ELSE IF body.kind = "error"
       THEN [threw |-> FALSE, isError |-> TRUE,
             text |-> "MCP error " \o ToString(body.code) \o ": " \o body.message]
     ELSE IF body.kind = "empty"
       THEN [threw |-> FALSE, isError |-> FALSE, text |-> ""]
     ELSE [threw |-> FALSE, isError |-> body.isError = "true", text |-> TextOf(body.content)]

\* part_010 lines 40-64: connectionError (of the second text, which goes on
\* with advice that holds a backquote, the first sentence)
connectionError(d) ==
  IF getConnectionKind(d) = "starting"
    THEN [threw |-> FALSE, isError |-> TRUE,
          text |-> "The BEAM is still compiling. Wait a moment and try again."]
    ELSE [threw |-> FALSE, isError |-> TRUE,
          text |-> "No BEAM connection for this project."]

\* the tool call of slot c completes with the outcome out
Result(c, d, url, out, aborted) ==
  <<[call |-> c, cwd |-> d, url |-> url, aborted |-> aborted, threw |-> out.threw,
     isError |-> out.isError, text |-> out.text]>>

\* part_010 lines 81-82: resolveUrl has returned null to execute
ExecuteNoConnection(c) ==
  /\ returned # <<>>
  /\ returned[1].call = c
  /\ returned[1].ret = JsNull
  /\ toolResult' = Result(c, returned[1].cwd, "", connectionError(returned[1].cwd), FALSE)
  /\ returned' = <<>>
  /\ statusCalls' = <<>>
  /\ UNCHANGED beamVars
  /\ UNCHANGED <<env, now, connectionCache, embeddedProcesses, embeddedFailed, entries,
                 onStatusChange, calls, requestId, history>>

\* part_010 line 85 and callTool lines 23-36: resolveUrl has returned a
\* connection to execute, which calls callTool; the POST is issued
ExecuteCallTool(c) ==
  /\ returned # <<>>
  /\ returned[1].call = c
  /\ returned[1].ret # JsNull
  /\ calls[c].pc = "idle"
  /\ requestId < MaxRequests
  /\ requestId' = requestId + 1
  /\ calls' = [calls EXCEPT ![c] =
                 [IdleCall EXCEPT !.pc = "fetching", !.cwd = returned[1].cwd,
                                  !.url = returned[1].ret.url]]
  /\ toolResult' = <<>>
  /\ returned' = <<>>
  /\ statusCalls' = <<>>
  /\ UNCHANGED beamVars
  /\ UNCHANGED <<env, now, connectionCache, embeddedProcesses, embeddedFailed, entries,
                 onStatusChange, history>>

\* a callTool that drops the directory's cache entry whenever fetch rejects
PostSettles_Invalidating(c, outcome) ==
  /\ calls[c].pc = "fetching"
  /\ IF outcome.kind = "threw"
       THEN /\ toolResult' = Result(c, calls[c].cwd, calls[c].url,
                                    CouldNotReach(calls[c].url, outcome.message),
                                    outcome.message = AbortError)
            /\ calls' = [calls EXCEPT ![c] = IdleCall]
            /\ connectionCache' = MapDelete(connectionCache, calls[c].cwd)
       ELSE /\ toolResult' = <<>>
            /\ calls' = [calls EXCEPT ![c].pc = "parsing", ![c].resp = outcome]
            /\ UNCHANGED connectionCache
  /\ returned' = <<>>
  /\ statusCalls' = <<>>
  /\ UNCHANGED beamVars
  /\ UNCHANGED <<env, now, embeddedProcesses, embeddedFailed, entries,
                 onStatusChange, requestId, history>>

\* callTool lines 26-44: fetch settles
PostSettles(c, outcome) ==
  /\ calls[c].pc = "fetching"
  /\ IF outcome.kind = "threw"
       THEN /\ toolResult' = Result(c, calls[c].cwd, calls[c].url,
                                    CouldNotReach(calls[c].url, outcome.message),
                                    outcome.message = AbortError)
            /\ calls' = [calls EXCEPT ![c] = IdleCall]
       ELSE /\ toolResult' = <<>>
            /\ calls' = [calls EXCEPT ![c].pc = "parsing", ![c].resp = outcome]
  /\ returned' = <<>>
  /\ statusCalls' = <<>>
  /\ UNCHANGED beamVars
  /\ UNCHANGED <<env, now, connectionCache, embeddedProcesses, embeddedFailed, entries,
                 onStatusChange, requestId, history>>

\* callTool lines 46-66: resp.json() settles
JsonSettles(c) ==
  /\ calls[c].pc = "parsing"
  /\ toolResult' = Result(c, calls[c].cwd, calls[c].url, AfterFetch(calls[c].resp), FALSE)
  /\ calls' = [calls EXCEPT ![c] = IdleCall]
  /\ returned' = <<>>
  /\ statusCalls' = <<>>
  /\ UNCHANGED beamVars
  /\ UNCHANGED <<env, now, connectionCache, embeddedProcesses, embeddedFailed, entries,
                 onStatusChange, requestId, history>>

----------------------------------------------------------------------------

(* Specifications.  Every one runs the same actions; they differ in the sets  *)
(* the inputs are drawn from.                                              *)

\* the steps of resolveUrl calls in the slots CS for the directories DS, with
\* mix.exs drawn from FS and the answers to the probes from RS
Resolve(CS, DS, FS, RS) ==
  \/ \E c \in CS, d \in DS : ResolveUrlCached(c, d)
  \/ \E c \in CS, d \in DS, file \in FS : ResolveUrlProbe(c, d, file)
  \/ \E c \in CS, i \in 1..NumPorts, resp \in RS : FetchConfigSettles(c, i, resp)
  \/ \E c \in CS : ResolveUrlFinish(c)

\* the events of the children, their stdout drawn from CHS
Child(CHS) ==
  \/ \E p \in 1..MaxProcs, chunk \in CHS : StdoutData(p, chunk)
  \/ \E p \in 1..MaxProcs : ProcError(p)
  \/ \E p \in 1..MaxProcs : ProcExit(p)

\* the broker in the default environment: one resolveUrl at a time, one directory
Next ==
  \/ Resolve({1}, OneDir, MixFiles, Responses)
  \/ Child(ChunksOver({4041}))
  \/ \E d \in OneDir : invalidateCache(d)
  \/ stopAllEmbedded
  \/ \E t \in Times : Tick(t)

Spec == Init /\ [][Next]_vars

\* the same with the history switched on
InitHistory ==
  /\ BeamInit
  /\ env = [TIDEWAVE_URL |-> "", PI_ELIXIR_DISABLE_EMBEDDED |-> ""]
  /\ now = 0
  /\ connectionCache = EmptyMap
  /\ embeddedProcesses = EmptyMap
  /\ embeddedFailed = {}
  /\ entries = <<>>
  /\ onStatusChange = "null"
  /\ statusCalls = <<>>
  /\ returned = <<>>
  /\ calls = [c \in Calls |-> IdleCall]
  /\ requestId = 0
  /\ toolResult = <<>>
  /\ history = [on |-> TRUE, lastCached |-> EmptyMap, invalidated |-> {}]

\* the resolves and the children's events, and nothing else touching the cache
NextHistory ==
  \/ Resolve({1}, OneDir, MixFiles, Responses)
  \/ Child(ChunksOver({4041}))
  \/ stopAllEmbedded
  \/ \E t \in Times : Tick(t)

SpecHistory == InitHistory /\ [][NextHistory]_vars

\* the same with process.env changing under it, the clock standing still
NextEnv ==
  \/ \E d \in OneDir : ResolveUrlOverride(1, d)
  \/ Resolve({1}, OneDir, MixFiles, Responses)
  \/ Child(ChunksOver({4041}))
  \/ \E d \in OneDir : invalidateCache(d)
  \/ stopAllEmbedded
  \/ \E e \in EnvValues : SetEnv(e)

SpecEnv == Init /\ [][NextEnv]_vars

\* the broker with the status callback registered at some point
NextStatus ==
  \/ Resolve({1}, OneDir, MixFiles, Responses)
  \/ Child(ChunksOver({4041}))
  \/ stopAllEmbedded
  \/ setStatusCallback
  \/ \E t \in Times : Tick(t)

SpecStatus == Init /\ [][NextStatus]_vars

\* tool calls: execute runs resolveUrl and then reports the missing connection
\* or calls callTool; every service that answers the probes is the project's own
NextTool ==
  \/ Resolve({1}, OneDir, OwnMixFiles, OwnResponses)
  \/ ExecuteNoConnection(1)
  \/ ExecuteCallTool(1)
  \/ \E outcome \in PostOutcomes : PostSettles(1, outcome)
  \/ JsonSettles(1)
  \/ Child(ChunksOver({4041}))
  \/ \E t \in Times : Tick(t)

SpecTool == Init /\ [][NextTool]_vars

\* two resolveUrl calls in flight at once for one directory; every service that
\* answers is the project's own
NextRace ==
  \/ Resolve(Calls, OneDir, OwnMixFiles, OwnResponses)
  \/ Child(ChunksOver({4041}))

SpecRace == Init /\ [][NextRace]_vars

----------------------------------------------------------------------------
(* Properties *)

\* the children of d the module has spawned
ChildrenOf(d) == {p \in 1..Len(entries) : entries[p].cwd = d}

\* those of them that run
RunningChildrenOf(d) == {p \in ChildrenOf(d) : entries[p].proc.status = "running"}

\* no probe of the sequence found a service
NoResponder(probes) == \A i \in 1..Len(probes) : probes[i] = JsNull

\* this step starts a resolveUrl call in slot c, or starts and completes it
Starts(c) ==
  /\ calls[c].pc = "idle"
  /\ \/ calls'[c].pc = "probing"
     \/ returned' # <<>> /\ returned'[1].call = c

\* the same, for the directory d
StartsFor(c, d) ==
  /\ calls[c].pc = "idle"
  /\ \/ calls'[c].pc = "probing" /\ calls'[c].cwd = d
     \/ returned' # <<>> /\ returned'[1].call = c /\ returned'[1].cwd = d

\* this step completes the call in slot c after its probes have settled
Finishes(c) ==
  /\ calls[c].pc = "probing"
  /\ returned' # <<>>
  /\ returned'[1].call = c

\* the probes that found a service
Responding(probes) == {i \in 1..Len(probes) : probes[i] # JsNull}

\* those of them whose service reports the project name appName
Matching(appName, probes) ==
  {i \in Responding(probes) : probes[i].config.project_name = appName}

\* the record of a child just spawned for d
Spawned(d) ==
  [cwd |-> d, url |-> "", port |-> 0, ready |-> FALSE,
   proc |-> [status |-> "running", killed |-> FALSE]]

\* C1: while TIDEWAVE_URL is set, a resolveUrl call completes at once with that
\* URL tagged native, whatever the cache, the process records and the failed marks
\* hold, having issued no probe, and it leaves the cache, the records, the marks
\* and the children as they were.
C1_OverrideWins ==
  [][\A c \in Calls :
       (env.TIDEWAVE_URL # "" /\ Starts(c)) =>
          /\ returned' # <<>>
          /\ returned'[1].ret = [url |-> env.TIDEWAVE_URL, kind |-> "native"]
          /\ ~returned'[1].probed
          /\ calls' = calls
          /\ UNCHANGED <<connectionCache, embeddedProcesses, embeddedFailed, entries>>]_vars

\* the override is returned over a cached connection and a failed mark
C1_Witness ==
  /\ env.TIDEWAVE_URL = OverrideUrl
  /\ returned # <<>>
  /\ returned[1].ret = [url |-> OverrideUrl, kind |-> "native"]
  /\ connectionCache # EmptyMap
  /\ embeddedFailed # {}
  /\ entries # <<>>

\* C2: whatever the interleaving of two resolveUrl calls for one directory (and
\* of the child's own events), the directory never has two running children at
\* once, so two calls racing on a directory never seen before spawn one child
\* between them; and a call that found no native service returns only when a
\* child has been spawned for its directory.
C2_OneSpawn ==
  /\ \A d \in Dirs : Cardinality(RunningChildrenOf(d)) <= 1
  /\ (returned # <<>> /\ returned[1].probed /\ NoResponder(returned[1].probes)) =>
        ChildrenOf(returned[1].cwd) # {}

\* call 1 has spawned the only child and returned none while call 2, started
\* before, has all its probes back empty and is about to continue
C2_Witness ==
  /\ returned # <<>>
  /\ returned[1].call = 1
  /\ returned[1].probed
  /\ returned[1].ret = JsNull
  /\ Len(entries) = 1
  /\ ~entries[1].ready
  /\ calls[2].pc = "probing"
  /\ calls[2].cwd = returned[1].cwd
  /\ \A i \in 1..NumPorts : calls[2].probes[i] = JsNull

\* C3 as stated: once a resolveUrl call has cached a connection for a directory
\* at t0, every call for that directory started at t with t - t0 < CACHE_TTL
\* returns that connection and issues no probe, whatever the children did in
\* between.
C3_Original ==
  [][\A c \in Calls, d \in Dirs :
       (/\ StartsFor(c, d)
        /\ d \in DOMAIN history.lastCached
        /\ now - history.lastCached[d].timestamp < CACHE_TTL) =>
          /\ returned' # <<>>
          /\ returned'[1].ret = [url |-> history.lastCached[d].url,
                                 kind |-> history.lastCached[d].kind]
          /\ ~returned'[1].probed]_vars

\* C3: an entry in the cache is the one a resolveUrl call cached last for its
\* directory, and a call started while the entry is in the cache and younger
\* than CACHE_TTL returns its connection, issues no probe and leaves the cache
\* as it is.  (The entry need not still be there: the readiness and the exit of
\* the directory's child delete it.)
C3_CachedWithinTTL ==
  [][\A c \in Calls, d \in Dirs :
       /\ d \in DOMAIN connectionCache =>
            /\ d \in DOMAIN history.lastCached
            /\ connectionCache[d] = history.lastCached[d]
       /\ (/\ StartsFor(c, d)
           /\ d \in DOMAIN connectionCache
           /\ now - connectionCache[d].timestamp < CACHE_TTL) =>
             /\ returned' # <<>>
             /\ returned'[1].ret = [url |-> connectionCache[d].url,
                                    kind |-> connectionCache[d].kind]
             /\ ~returned'[1].probed
             /\ UNCHANGED connectionCache]_vars

\* a native connection cached at 0 is returned without a probe one millisecond
\* before it expires, the directory's child having failed meanwhile
C3_Witness ==
  /\ returned # <<>>
  /\ ~returned[1].probed
  /\ returned[1].cwd \in DOMAIN connectionCache
  /\ connectionCache[returned[1].cwd].timestamp = 0
  /\ now = CACHE_TTL - 1
  /\ returned[1].ret = [url |-> connectionCache[returned[1].cwd].url, kind |-> "native"]
  /\ history.lastCached = connectionCache
  /\ returned[1].cwd \in embeddedFailed

\* C4: a resolveUrl call started when the directory's entry is CACHE_TTL old or
\* older returns nothing at once and issues its probes; and what a call that
\* probed returns comes from its own probes and the process record: a native
\* connection is the url of one of its responders, an embedded one is the ready
\* record's and is returned only when no responder was acceptable, either is
\* cached with the time of the return, and none leaves the cache alone.
C4_ExpiredReprobes ==
  [][\A c \in Calls, d \in Dirs :
       /\ (/\ StartsFor(c, d)
           /\ env.TIDEWAVE_URL = ""
           /\ d \in DOMAIN connectionCache
           /\ now - connectionCache[d].timestamp >= CACHE_TTL) =>
             /\ returned' = <<>>
             /\ calls'[c].pc = "probing"
             /\ \A i \in 1..NumPorts : calls'[c].probes[i] = Pending
       /\ (Finishes(c) /\ returned'[1].cwd = d) =>
            LET r == returned'[1]
            IN /\ r.probed
               /\ r.ret = JsNull => UNCHANGED connectionCache
               /\ r.ret # JsNull =>
                    /\ connectionCache' = [x \in DOMAIN connectionCache \cup {d} |->
                          IF x = d
                            THEN [url |-> r.ret.url, kind |-> r.ret.kind, timestamp |-> now]
                            ELSE connectionCache[x]]
                    /\ r.ret.kind = "native" =>
                         \E i \in Responding(r.probes) : r.probes[i].url = r.ret.url
                    /\ r.ret.kind = "embedded" =>
                         /\ d \in DOMAIN embeddedProcesses
                         /\ entries[embeddedProcesses[d]].ready
                         /\ r.ret.url = entries[embeddedProcesses[d]].url
                         /\ \/ Responding(r.probes) = {}
                            \/ r.appName # NullStr /\ Matching(r.appName, r.probes) = {}]_vars

\* a call has probed, found nothing and returned none although the cache still
\* holds the directory's expired native entry
C4_Witness ==
  /\ returned # <<>>
  /\ returned[1].probed
  /\ returned[1].ret = JsNull
  /\ returned[1].cwd \in DOMAIN connectionCache
  /\ connectionCache[returned[1].cwd].kind = "native"
  /\ now - connectionCache[returned[1].cwd].timestamp >= CACHE_TTL

\* C5: with PI_ELIXIR_DISABLE_EMBEDDED=1, no override and nothing cached for the
\* directory, a resolveUrl call completes only after probing, and when no probe
\* found a service it returns none and spawns nothing: with the flag set from the
\* start and no service ever reachable, every call returns none and no child exists.
C5_DisabledNeverSpawns ==
  [][(/\ env.PI_ELIXIR_DISABLE_EMBEDDED = "1"
      /\ env.TIDEWAVE_URL = ""
      /\ returned' # <<>>
      /\ returned'[1].cwd \notin DOMAIN connectionCache
      /\ NoResponder(returned'[1].probes)) =>
        /\ returned'[1].probed
        /\ returned'[1].ret = JsNull
        /\ UNCHANGED <<connectionCache, embeddedProcesses, embeddedFailed, entries>>]_vars

\* a call with the flag set has probed, found nothing and returned none, and no
\* child was ever spawned
C5_Witness ==
  /\ env.PI_ELIXIR_DISABLE_EMBEDDED = "1"
  /\ returned # <<>>
  /\ returned[1].probed
  /\ NoResponder(returned[1].probes)
  /\ returned[1].ret = JsNull
  /\ entries = <<>>
  /\ connectionCache = EmptyMap

\* C6: when mix.exs yields a project name, a resolveUrl call returns and caches
\* as native only the url of a responder that reports this name, whatever
\* answered on the probed ports; when no responder reports it, the call returns
\* no native connection and caches none.
C6_NameMatch ==
  [][\A c \in Calls :
       (Finishes(c) /\ returned'[1].appName # NullStr) =>
          LET r == returned'[1]
              matching == Matching(r.appName, r.probes)
          IN /\ (r.ret # JsNull /\ r.ret.kind = "native") =>
                  /\ \E i \in matching : r.probes[i].url = r.ret.url
                  /\ connectionCache'[r.cwd] =
                       [url |-> r.ret.url, kind |-> "native", timestamp |-> now]
             /\ matching = {} =>
                  /\ r.ret = JsNull \/ r.ret.kind = "embedded"
                  /\ r.ret = JsNull => UNCHANGED connectionCache
                  /\ r.ret # JsNull => connectionCache'[r.cwd].kind = "embedded"]_vars

\* the service on the first port reports other_app, the one on the second port
\* my_app, and the call of the project my_app returns the second
C6_Witness ==
  /\ returned # <<>>
  /\ returned[1].probed
  /\ returned[1].appName = "my_app"
  /\ returned[1].probes[1] # JsNull
  /\ returned[1].probes[1].config.project_name = "other_app"
  /\ returned[1].probes[2] # JsNull
  /\ returned[1].probes[2].config.project_name = "my_app"
  /\ returned[1].ret = [url |-> "http://localhost:4001/tidewave/mcp", kind |-> "native"]

\* C7: when mix.exs yields no project name and some probe found a service, the
\* call returns as native the url of the lowest responding port, in whatever
\* order the probes settled.
C7_FirstInProbeOrder ==
  (returned # <<>> /\ returned[1].probed /\ returned[1].appName = NullStr
     /\ Responding(returned[1].probes) # {}) =>
    LET r == returned[1]
        lowest == CHOOSE i \in Responding(r.probes) :
                    \A j \in Responding(r.probes) : i <= j
    IN r.ret = [url |-> "http://localhost:" \o ToString(PROBE_PORTS[lowest])
                          \o "/tidewave/mcp",
                kind |-> "native"]

\* both ports answered, the second before the first, and the first is returned
C7_Witness ==
  /\ returned # <<>>
  /\ returned[1].probed
  /\ returned[1].appName = NullStr
  /\ returned[1].probes[1] # JsNull
  /\ returned[1].probes[2] # JsNull
  /\ returned[1].order[1] = 2
  /\ returned[1].ret = [url |-> "http://localhost:4000/tidewave/mcp", kind |-> "native"]

\* the call of c finds services and none that reports the project's name, for a
\* directory with no cache entry, no record, no failed mark and no child so far
MismatchOnNewDir(c) ==
  /\ Finishes(c)
  /\ returned'[1].appName # NullStr
  /\ Responding(returned'[1].probes) # {}
  /\ Matching(returned'[1].appName, returned'[1].probes) = {}
  /\ returned'[1].cwd \notin DOMAIN connectionCache
  /\ returned'[1].cwd \notin DOMAIN embeddedProcesses
  /\ returned'[1].cwd \notin embeddedFailed
  /\ ChildrenOf(returned'[1].cwd) = {}

\* C8 as stated: when every responding service reports another project name
\* than the one mix.exs yields, the call for a directory never seen before
\* returns none and no child is spawned.
C8_Original ==
  [][\A c \in Calls :
       MismatchOnNewDir(c) =>
          /\ returned'[1].ret = JsNull
          /\ UNCHANGED <<entries, embeddedProcesses>>]_vars

\* C8: in that case the call returns none and caches nothing; it spawns no
\* child when PI_ELIXIR_DISABLE_EMBEDDED is 1, and otherwise it spawns one child
\* for the directory and records it.
C8_MismatchReturnsNone ==
  [][\A c \in Calls :
       MismatchOnNewDir(c) =>
          LET r == returned'[1]
          IN /\ r.ret = JsNull
             /\ UNCHANGED <<connectionCache, embeddedFailed>>
             /\ IF env.PI_ELIXIR_DISABLE_EMBEDDED = "1"
                  THEN /\ ~r.spawned
                       /\ UNCHANGED <<entries, embeddedProcesses>>
                  ELSE /\ r.spawned
                       /\ entries' = Append(entries, Spawned(r.cwd))
                       /\ DOMAIN embeddedProcesses' = DOMAIN embeddedProcesses \cup {r.cwd}
                       /\ embeddedProcesses'[r.cwd] = Len(entries')]_vars

\* both ports answered for other_app, the project is my_app, embedding is not
\* disabled: the call returned none, cached nothing and spawned the only child
C8_Witness ==
  /\ returned # <<>>
  /\ returned[1].probed
  /\ returned[1].appName = "my_app"
  /\ \A i \in 1..NumPorts :
       /\ returned[1].probes[i] # JsNull
       /\ returned[1].probes[i].config.project_name = "other_app"
  /\ returned[1].ret = JsNull
  /\ returned[1].spawned
  /\ env.PI_ELIXIR_DISABLE_EMBEDDED # "1"
  /\ connectionCache = EmptyMap
  /\ entries = <<Spawned(returned[1].cwd)>>

\* C9: with no service found and embedding enabled, the call for a directory
\* with no record and no failed mark returns none and spawns the child; the
\* readiness line with port N, arriving whole at a child not yet ready, makes
\* the record ready with the endpoint http://127.0.0.1:N/mcp and deletes the
\* directory's cache entry; a call started with no entry in the cache probes;
\* and a call that found no service while the record is ready returns the
\* record's endpoint as embedded and caches it.
C9_EmbeddedAfterReady ==
  [][/\ \A c \in Calls :
          (/\ Finishes(c)
           /\ Responding(returned'[1].probes) = {}
           /\ env.PI_ELIXIR_DISABLE_EMBEDDED # "1"
           /\ returned'[1].cwd \notin embeddedFailed) =>
             LET r == returned'[1]
             IN IF r.cwd \notin DOMAIN embeddedProcesses
                  THEN /\ r.ret = JsNull
                       /\ r.spawned
                       /\ entries' = Append(entries, Spawned(r.cwd))
                       /\ embeddedProcesses'[r.cwd] = Len(entries')
                  ELSE entries[embeddedProcesses[r.cwd]].ready =>
                         /\ r.ret = [url |-> entries[embeddedProcesses[r.cwd]].url,
                                     kind |-> "embedded"]
                         /\ connectionCache'[r.cwd] =
                              [url |-> r.ret.url, kind |-> "embedded", timestamp |-> now]
                         /\ UNCHANGED entries
     /\ \A p \in 1..Len(entries), N \in ReadyPorts :
          (~entries[p].ready /\ StdoutData(p, ReadinessLine(N))) =>
             /\ entries'[p] =
                  [entries[p] EXCEPT !.ready = TRUE, !.port = N,
                     !.url = "http://127.0.0.1:" \o ToString(N) \o "/mcp"]
             /\ entries[p].cwd \notin DOMAIN connectionCache'
     /\ \A c \in Calls, d \in Dirs :
          (StartsFor(c, d) /\ env.TIDEWAVE_URL = "" /\ d \notin DOMAIN connectionCache) =>
             calls'[c].pc = "probing"]_vars

\* the readiness line with port 4041 found an entry for the directory in the
\* cache and deleted it, and a call that then found no service has returned the
\* embedded endpoint on port 4041
C9_Witness ==
  /\ returned # <<>>
  /\ returned[1].probed
  /\ Responding(returned[1].probes) = {}
  /\ returned[1].ret = [url |-> "http://127.0.0.1:4041/mcp", kind |-> "embedded"]
  /\ returned[1].cwd \in history.invalidated

\* C10: a call that found no service while the directory's record exists and is
\* not ready returns none in that step, the record still not ready, and spawns
\* nothing: the children, the records and the cache are as they were.
C10_StartingReturnsNone ==
  [][\A c \in Calls :
       (/\ Finishes(c)
        /\ Responding(returned'[1].probes) = {}
        /\ returned'[1].cwd \in DOMAIN embeddedProcesses
        /\ ~entries[embeddedProcesses[returned'[1].cwd]].ready) =>
          /\ returned'[1].ret = JsNull
          /\ ~returned'[1].spawned
          /\ calls'[c].pc = "idle"
          /\ UNCHANGED <<entries, embeddedProcesses, connectionCache>>]_vars

\* a call has found no service and returned none without spawning while the
\* directory's only child, spawned earlier, runs and is not ready
C10_Witness ==
  /\ returned # <<>>
  /\ returned[1].probed
  /\ Responding(returned[1].probes) = {}
  /\ returned[1].ret = JsNull
  /\ ~returned[1].spawned
  /\ returned[1].cwd \in DOMAIN embeddedProcesses
  /\ entries = <<Spawned(returned[1].cwd)>>
  /\ returned[1].cwd \notin embeddedFailed
  /\ env.PI_ELIXIR_DISABLE_EMBEDDED # "1"

\* C11: every record whose ready flag is set carries an endpoint, the one of
\* the port it recorded, and no resolveUrl call returns an embedded connection
\* without one, whatever chunks the child's stdout delivered.
C11_ReadyHasEndpoint ==
  /\ \A p \in 1..Len(entries) :
       entries[p].ready =>
         /\ entries[p].port # 0
         /\ entries[p].url = "http://127.0.0.1:" \o ToString(entries[p].port) \o "/mcp"
  /\ (returned # <<>> /\ returned[1].ret # JsNull /\ returned[1].ret.kind = "embedded") =>
        returned[1].ret.url # ""

\* a call has returned an embedded connection with an empty endpoint: the record
\* was made ready by a chunk holding the marker and no port
C11_Witness ==
  /\ returned # <<>>
  /\ returned[1].ret = [url |-> "", kind |-> "embedded"]
  /\ returned[1].cwd \in DOMAIN embeddedProcesses
  /\ entries[embeddedProcesses[returned[1].cwd]].ready
  /\ entries[embeddedProcesses[returned[1].cwd]].port = 0

\* this step is the exit of the child p
Exits(p) ==
  /\ entries[p].proc.status \in {"running", "errored"}
  /\ entries'[p].proc.status = "exited"

\* C12: the step in which a child exits, ready or not, leaves no record and no
\* cache entry for its directory and calls the registered status callback once,
\* with the directory and null.
C12_ExitCleansUp ==
  [][\A p \in 1..Len(entries) :
       Exits(p) =>
          /\ entries[p].cwd \notin DOMAIN embeddedProcesses'
          /\ entries[p].cwd \notin DOMAIN connectionCache'
          /\ onStatusChange = "set" =>
               statusCalls' = <<[cwd |-> entries[p].cwd, kind |-> "null"]>>]_vars

\* the only child has exited after it was ready (no failed mark), the callback
\* was told null, and neither a record nor a cache entry is left
C12_Witness ==
  /\ Len(entries) = 1
  /\ entries[1].proc.status = "exited"
  /\ statusCalls = <<[cwd |-> entries[1].cwd, kind |-> "null"]>>
  /\ entries[1].cwd \notin embeddedFailed
  /\ embeddedProcesses = EmptyMap
  /\ connectionCache = EmptyMap

\* the error event of p was a failed spawn: the child was never ready and never
\* sent a kill (the other cause of an error event is a kill that fails)
SpawnFailed(p) ==
  /\ entries[p].proc.status = "errored"
  /\ ~entries[p].ready
  /\ ~entries[p].proc.killed

\* C13: once a directory carries the failed mark (set by the exit of a child
\* not yet ready and by the error event) the mark stays and no step spawns a
\* child for it; and when the children of the directory that had an error event
\* are failed spawns, every resolveUrl call for it returns none or a native
\* connection.
C13_NoRespawn ==
  [][\A d \in embeddedFailed :
       /\ d \in embeddedFailed'
       /\ ChildrenOf(d)' = ChildrenOf(d)
       /\ (returned' # <<>> /\ returned'[1].cwd = d) => ~returned'[1].spawned
       /\ (/\ returned' # <<>>
           /\ returned'[1].cwd = d
           /\ \A p \in ChildrenOf(d) :
                entries[p].proc.status = "errored" => SpawnFailed(p)) =>
             \/ returned'[1].ret = JsNull
             \/ returned'[1].ret.kind = "native"]_vars

\* the only child of the directory has exited before it was ready, and a later
\* call has probed, found no service and returned none without spawning
C13_Witness ==
  /\ Len(entries) = 1
  /\ entries[1].proc.status = "exited"
  /\ connectionCache = EmptyMap
  /\ entries[1].cwd \in embeddedFailed
  /\ returned # <<>>
  /\ returned[1].cwd = entries[1].cwd
  /\ returned[1].probed
  /\ Responding(returned[1].probes) = {}
  /\ returned[1].ret = JsNull
  /\ ~returned[1].spawned
  /\ env.PI_ELIXIR_DISABLE_EMBEDDED # "1"

\* this step is the error event of the child p, a failed spawn
SpawnFails(p) ==
  /\ entries[p].proc.status = "running"
  /\ ~entries[p].ready
  /\ ~entries[p].proc.killed
  /\ entries'[p].proc.status = "errored"

\* C14: the error event of a failed spawn leaves the record, the cache entry,
\* the failed mark and the status notification as the exit of that child in the
\* same state would: no record and no cache entry for the directory, the
\* directory marked failed, the registered callback called once with null.
C14_ErrorAsExit ==
  [][\A p \in 1..Len(entries) :
       SpawnFails(p) =>
          /\ entries[p].cwd \notin DOMAIN embeddedProcesses'
          /\ entries[p].cwd \notin DOMAIN connectionCache'
          /\ embeddedFailed' = embeddedFailed \cup {entries[p].cwd}
          /\ onStatusChange = "set" =>
               statusCalls' = <<[cwd |-> entries[p].cwd, kind |-> "null"]>>]_vars

\* the spawn of the directory's only child has failed, the callback was told
\* null, and the expired cache entry of the directory is still in the Map
C14_Witness ==
  /\ Len(entries) = 1
  /\ SpawnFailed(1)
  /\ embeddedProcesses = EmptyMap
  /\ entries[1].cwd \in embeddedFailed
  /\ statusCalls = <<[cwd |-> entries[1].cwd, kind |-> "null"]>>
  /\ entries[1].cwd \in DOMAIN connectionCache
  /\ now - connectionCache[entries[1].cwd].timestamp >= CACHE_TTL

\* the children a record of the Map refers to, per directory
RecordedChildrenOf(d) ==
  {p \in ChildrenOf(d) : \E k \in DOMAIN embeddedProcesses : embeddedProcesses[k] = p}

\* C15: a directory has at most one process record, and the record under a
\* directory's key is of a child of that directory; a step spawns a child for a
\* directory only if no record exists for it, and the new child gets the record.
C15_OneRecord ==
  [][\A d \in Dirs :
       /\ Cardinality(RecordedChildrenOf(d)) <= 1
       /\ d \in DOMAIN embeddedProcesses => embeddedProcesses[d] \in ChildrenOf(d)
       /\ ChildrenOf(d)' # ChildrenOf(d) =>
            /\ d \notin DOMAIN embeddedProcesses
            /\ ChildrenOf(d)' = ChildrenOf(d) \cup {Len(entries) + 1}
            /\ RecordedChildrenOf(d)' = {Len(entries) + 1}]_vars

\* the directory's first child was stopped and has not exited, no record was
\* left, and a call has spawned the second child, which has the record
C15_Witness ==
  /\ returned # <<>>
  /\ returned[1].spawned
  /\ Len(entries) = 2
  /\ entries[1].cwd = returned[1].cwd
  /\ entries[1].proc.status = "running"
  /\ entries[1].proc.killed
  /\ entries[2] = Spawned(returned[1].cwd)
  /\ embeddedProcesses[returned[1].cwd] = 2

\* C16: a call of stopAllEmbedded leaves no process record, and every child
\* that still runs after it has been sent a kill, ready or not.
C16_StopKillsAll ==
  [][stopAllEmbedded =>
       /\ embeddedProcesses' = EmptyMap
       /\ \A p \in 1..Len(entries') :
            entries'[p].proc.status = "running" => entries'[p].proc.killed]_vars

\* the first child, stopped, has exited after the second was spawned and has
\* taken the second's record with it: the second runs, no record names it, and
\* stopAllEmbedded finds nothing to kill
C16_Witness ==
  /\ Len(entries) = 2
  /\ entries[1].proc.status = "exited"
  /\ entries[2].proc.status = "running"
  /\ ~entries[2].proc.killed
  /\ entries[2].cwd = entries[1].cwd
  /\ embeddedProcesses = EmptyMap

\* this step completes the callTool of slot c with a transport failure that is
\* no cancellation: fetch rejected, or the body of the answer was no JSON
TransportFailure(c) ==
  /\ toolResult' # <<>>
  /\ toolResult'[1].call = c
  /\ ~toolResult'[1].aborted
  /\ \/ calls[c].pc = "fetching"
     \/ calls[c].pc = "parsing" /\ calls[c].resp.body.kind = "invalid"

\* C17: a tool call that fails at transport level leaves no cache entry for its
\* directory, so that the next resolveUrl does not return the failed endpoint.
C17_FailureInvalidates ==
  [][\A c \in Calls :
       TransportFailure(c) => toolResult'[1].cwd \notin DOMAIN connectionCache']_vars

\* callTool could not reach the endpoint it was given, and the cache still holds
\* that endpoint for the directory, younger than CACHE_TTL
C17_Witness ==
  /\ toolResult # <<>>
  /\ toolResult[1].isError
  /\ toolResult[1].text = "Could not reach BEAM at " \o toolResult[1].url
                            \o " (fetch failed). Is the Phoenix server running?"
  /\ toolResult[1].cwd \in DOMAIN connectionCache
  /\ connectionCache[toolResult[1].cwd].url = toolResult[1].url
  /\ now - connectionCache[toolResult[1].cwd].timestamp < CACHE_TTL

\* C18: no step of callTool (the POST is issued, fetch settles, the body is
\* read) changes the cache, the process records, the failed marks or the
\* children; in particular the step in which the caller's signal aborts the
\* request returns an error result and leaves them as they were.
C18_AbortLeavesState ==
  [][\A c \in Calls :
       /\ (toolResult' # <<>> /\ toolResult'[1].call = c /\ toolResult'[1].aborted) =>
            /\ calls[c].pc = "fetching"
            /\ calls'[c].pc = "idle"
            /\ toolResult'[1].isError
            /\ ~toolResult'[1].threw
            /\ UNCHANGED <<connectionCache, embeddedProcesses, embeddedFailed, entries>>
       /\ (\/ calls[c].pc = "idle" /\ calls'[c].pc = "fetching"
           \/ calls[c].pc \in {"fetching", "parsing"} /\ calls'[c] # calls[c]) =>
            UNCHANGED <<connectionCache, embeddedProcesses, embeddedFailed, entries>>]_vars

\* the request to the cached endpoint was aborted; the cache entry, the ready
\* child and its record are there
C18_Witness ==
  /\ toolResult # <<>>
  /\ toolResult[1].aborted
  /\ toolResult[1].text = "Could not reach BEAM at " \o toolResult[1].url
                            \o " (This operation was aborted). Is the Phoenix server running?"
  /\ toolResult[1].cwd \in DOMAIN connectionCache
  /\ connectionCache[toolResult[1].cwd].url = toolResult[1].url
  /\ connectionCache[toolResult[1].cwd].kind = "embedded"
  /\ toolResult[1].cwd \in DOMAIN embeddedProcesses
  /\ entries[embeddedProcesses[toolResult[1].cwd]].ready

\* C19: callTool never throws; when fetch rejects it returns an error result
\* whose text names the endpoint and the cause, and when the body of the answer
\* is not what it expects it returns an error result whose text names the HTTP
\* status.
C19_NeverThrows ==
  [][\A c \in Calls :
       (toolResult' # <<>> /\ toolResult'[1].call = c /\ calls[c].pc \in {"fetching", "parsing"}) =>
          /\ ~toolResult'[1].threw
          /\ calls[c].pc = "fetching" =>
               /\ toolResult'[1].isError
               /\ \E m \in {NetworkError, AbortError} :
                    toolResult'[1].text = "Could not reach BEAM at " \o calls[c].url \o " ("
                                            \o m \o "). Is the Phoenix server running?"
          /\ (calls[c].pc = "parsing"
                /\ calls[c].resp.body.kind \in {"invalid", "null", "bad_content"}) =>
               /\ toolResult'[1].isError
               /\ toolResult'[1].text =
                    "BEAM returned invalid response (HTTP " \o ToString(calls[c].resp.status)
                      \o "). The server may be starting up or misconfigured."]_vars

\* callTool has thrown a TypeError to execute
C19_Witness ==
  /\ toolResult # <<>>
  /\ toolResult[1].threw
  /\ toolResult[1].text = "TypeError"
  /\ toolResult[1].url # ""

\* a child of d was spawned, has its record and is not ready
Starting(d) ==
  /\ d \in DOMAIN embeddedProcesses
  /\ ~entries[embeddedProcesses[d]].ready

\* C20: when resolveUrl has returned none to a tool call, the tool call reports
\* the still-starting error if a child of the directory is starting, and the
\* no-connection error only if none is.
C20_StartingReported ==
  [][\A c \in Calls :
       (/\ returned # <<>>
        /\ returned[1].call = c
        /\ returned[1].ret = JsNull
        /\ toolResult' # <<>>
        /\ toolResult'[1].call = c) =>
          /\ toolResult'[1].isError
          /\ toolResult'[1].text =
               IF Starting(returned[1].cwd)
                 THEN "The BEAM is still compiling. Wait a moment and try again."
                 ELSE "No BEAM connection for this project."]_vars

\* the tool call has reported the no-connection error while the directory's
\* child, just spawned, is starting: the cache holds an expired native entry
C20_Witness ==
  /\ toolResult # <<>>
  /\ toolResult[1].text = "No BEAM connection for this project."
  /\ Starting(toolResult[1].cwd)
  /\ entries[embeddedProcesses[toolResult[1].cwd]].proc.status = "running"
  /\ toolResult[1].cwd \in DOMAIN connectionCache
  /\ connectionCache[toolResult[1].cwd].kind = "native"
  /\ now - connectionCache[toolResult[1].cwd].timestamp >= CACHE_TTL

\* C21 as stated: the connection state of a directory is null when it has
\* neither a cache entry nor a record, starting when it has a record that is not
\* ready, embedded when it has a ready record, native when a native connection
\* is cached.
C21_Original ==
  \A d \in Dirs :
    /\ (d \notin DOMAIN connectionCache /\ d \notin DOMAIN embeddedProcesses) =>
         getConnectionKind(d) = "null"
    /\ (d \in DOMAIN embeddedProcesses /\ ~entries[embeddedProcesses[d]].ready) =>
         getConnectionKind(d) = "starting"
    /\ (d \in DOMAIN embeddedProcesses /\ entries[embeddedProcesses[d]].ready) =>
         getConnectionKind(d) = "embedded"
    /\ (d \in DOMAIN connectionCache /\ connectionCache[d].kind = "native") =>
         getConnectionKind(d) = "native"

\* C21: the connection state of a directory is the kind of its cache entry when
\* the cache has one, and otherwise null with no record, starting with a record
\* that is not ready, embedded with a ready record; and it is null after the
\* step in which a child that was not ready exits.
C21_ConnectionState ==
  [][/\ \A d \in Dirs :
          getConnectionKind(d) =
            IF d \in DOMAIN connectionCache THEN connectionCache[d].kind
            ELSE IF d \notin DOMAIN embeddedProcesses THEN "null"
            ELSE IF entries[embeddedProcesses[d]].ready THEN "embedded"
            ELSE "starting"
     /\ \A p \in 1..Len(entries) :
          (Exits(p) /\ ~entries[p].ready) => getConnectionKind(entries[p].cwd)' = "null"]_vars

\* a native connection is cached while the directory's child is starting: the
\* state is native
C21_Witness ==
  \E d \in Dirs :
    /\ d \in DOMAIN connectionCache
    /\ connectionCache[d].kind = "native"
    /\ now - connectionCache[d].timestamp < CACHE_TTL
    /\ Starting(d)
    /\ entries[embeddedProcesses[d]].proc.status = "running"
    /\ getConnectionKind(d) = "native"

----------------------------------------------------------------------------
(* The embedded service, scripts/embedded_tidewave.exs: Pi.MCP.Logger *)

\* the number of entries cast in one run of the model
MaxAppends == 5

\* two of the @levels of line 17
LogLevels == {"error", "info"}

\* log lines
LogMessages == {"a", "ab", "B"}

\* the {level, message} pair the queue holds
LogEntry(level, message) == [level |-> level, message |-> message]

\* a buffer that evicts only once it holds more than max entries
handle_cast_OffByOne(state, level, message) ==
  IF state.size > state.max
    THEN [state EXCEPT !.logs = Append(Tail(state.logs), LogEntry(level, message))]
    ELSE [state EXCEPT !.logs = Append(state.logs, LogEntry(level, message)),
                       !.size = state.size + 1]

\* handle_cast({:log, level, message}, state), lines 47-57: :queue.out drops the
\* front of the queue, :queue.in adds at the rear
handle_cast(state, level, message) ==
  IF state.size >= state.max
    THEN [state EXCEPT !.logs = Append(Tail(state.logs), LogEntry(level, message))]
    ELSE [state EXCEPT !.logs = Append(state.logs, LogEntry(level, message)),
                       !.size = state.size + 1]

\* Pi.MCP.Logger.log, lines 31-39: the handler the boot adds to :logger; an
\* event with the pi_mcp metadata is dropped, any other is cast to the server
Log(pi_mcp, level, message) ==
  /\ Len(appended) < MaxAppends
  /\ IF pi_mcp
       THEN UNCHANGED <<logger, appended>>
       ELSE /\ logger' = handle_cast(logger, level, message)
            /\ appended' = Append(appended, LogEntry(level, message))
  /\ UNCHANGED <<http_server, actual_port, listener, handlers, units, exchanges>>
  /\ UNCHANGED clientVars

\* handle_call(:clear_logs, ...), lines 81-83
clear_logs ==
  /\ logger' = [logger EXCEPT !.logs = <<>>, !.size = 0]
  /\ appended' = <<>>
  /\ UNCHANGED <<http_server, actual_port, listener, handlers, units, exchanges>>
  /\ UNCHANGED clientVars

\* the log buffer alone: events logged and the buffer cleared
NextLogger ==
  \/ \E pi_mcp \in BOOLEAN, level \in LogLevels, message \in LogMessages :
       Log(pi_mcp, level, message)
  \/ clear_logs

SpecLogger == Init /\ [][NextLogger]_vars

\* the last n elements of a sequence, all of it when it is shorter
LastN(seq, n) ==
  IF Len(seq) <= n THEN seq ELSE SubSeq(seq, Len(seq) - n + 1, Len(seq))

\* C30: the log buffer holds the entries cast since it was last cleared when
\* they are at most its capacity, and otherwise the capacity's worth of the most
\* recent ones, in the order they were cast.
C30_RingBuffer ==
  /\ logger.logs = LastN(appended, logger.max)
  /\ logger.size = Len(logger.logs)
  /\ logger.max = LogCapacity

\* more entries than the capacity have been cast and the oldest has gone
C30_Witness ==
  /\ Len(appended) = LogCapacity + 2
  /\ Len(logger.logs) = LogCapacity
  /\ logger.logs = SubSeq(appended, 3, LogCapacity + 2)
  /\ logger.logs # SubSeq(appended, 1, LogCapacity)

----------------------------------------------------------------------------
(* The embedded service: JSON and the operations *)

\* the requests received in one run of the model
MaxHttp == 2

\* Map.get(args, "timeout", 30_000), line 106
DefaultTimeout == 30000

\* JSON as Jason decodes it: an object is a map from keys to values, here with
\* the values that are objects or arrays tagged as such; a body may also be
\* empty or no JSON at all
JObject(fields) == [json |-> "object", fields |-> fields]
JArray == [json |-> "array"]
NotJson == [json |-> "invalid"]
NoBody == [json |-> "empty"]

\* the ids of the JSON-RPC requests
RpcIds == {1, 2}

\* all eight names of @levels, line 17
Levels == {"emergency", "alert", "critical", "error", "warning", "notice", "info", "debug"}

\* Regex.compile!(grep, "iu"), line 23: "(" is no regular expression
RegexCompiles(grep) == grep # "("

\* Regex.match?(regex, message), line 73, for a pattern of one letter: it is
\* among the characters of the log line with their case folded, as the "i"
\* option has them
RegexMatch(grep, message) ==
  LET Folded == CASE message = "a" -> <<"a">>
                  [] message = "ab" -> <<"a", "b">>
                  [] message = "B" -> <<"b">>
  IN  \E i \in DOMAIN Folded : Folded[i] = grep

\* Enum.join(messages, "\n"), line 373
RECURSIVE Enum_join(_)
Enum_join(messages) ==
  IF messages = <<>> THEN ""
  ELSE IF Len(messages) = 1 THEN messages[1]
  ELSE messages[1] \o "\n" \o Enum_join(Tail(messages))

\* what an operation comes to: {:ok, text}, {:error, message}, or an exception
Ok(text) == [tag |-> "ok", text |-> text]
Error(message) == [tag |-> "error", text |-> message]
Raise(exception, plug_status) ==
  [tag |-> "raise", exception |-> exception, plug_status |-> plug_status]

\* a read that keeps the last n entries of the buffer and filters those
handle_call_get_logs_TruncatesFirst(n, regex, level_filter, state) ==
  LET KeepLevel(e) == level_filter = NullStr \/ e.level = level_filter
      KeepText(e) == regex = NullStr \/ RegexMatch(regex, e.message)
      logs == SelectSeq(SelectSeq(LastN(state.logs, n), KeepLevel), KeepText)
  IN  [i \in 1..Len(logs) |-> logs[i].message]

\* handle_call({:get_logs, n, regex, level_filter}, ...), lines 60-79; NullStr
\* stands for nil
handle_call_get_logs(n, regex, level_filter, state) ==
  LET KeepLevel(e) == level_filter = NullStr \/ e.level = level_filter
      KeepText(e) == regex = NullStr \/ RegexMatch(regex, e.message)
      logs == SelectSeq(SelectSeq(state.logs, KeepLevel), KeepText)
      messages == [i \in 1..Len(logs) |-> logs[i].message]
  IN  LastN(messages, n)

\* Pi.MCP.Logger.get_logs, lines 21-27: compile! and fetch! raise
Logger_get_logs(n, grep, level, state) ==
  IF grep # NullStr /\ ~RegexCompiles(grep) THEN Raise("Regex.CompileError", 500)
  ELSE IF level # NullStr /\ level \notin Levels THEN Raise("KeyError", 500)
  ELSE Ok(Enum_join(handle_call_get_logs(n, grep, level, state)))

\* Map.get(args, key), nil when the key is absent
MapGet(args, key) == IF key \in DOMAIN args THEN args[key] ELSE NullStr

\* Pi.MCP.Tools.get_logs, lines 368-376
Tools_get_logs(args, state) ==
  IF "tail" \in DOMAIN args
    THEN Logger_get_logs(args.tail, MapGet(args, "grep"), MapGet(args, "level"), state)
    ELSE Error("Missing required parameter: tail")

\* a dispatch that raises for a name it does not know
dispatch_Raising(name, args, state) ==
  IF name = "project_eval" THEN Error("Missing required parameter: code")
  ELSE IF name = "get_logs" THEN Tools_get_logs(args, state)
  ELSE Raise("CaseClauseError", 500)

\* Pi.MCP.Tools.dispatch, lines 90-101, for project_eval without code and for
\* get_logs, and for the names it does not know; a project_eval with code is an
\* evaluation and takes several steps (below), and the other five operations
\* are not in the model; the name is NullStr when params has none, and
\* interpolates as the empty string
dispatch(name, args, state) ==
  IF name = "project_eval" THEN Error("Missing required parameter: code")
  ELSE IF name = "get_logs" THEN Tools_get_logs(args, state)
  ELSE Error("Unknown tool: " \o (IF name = NullStr THEN "" ELSE name))

----------------------------------------------------------------------------
(* The embedded service: evaluation, the two hosts *)

\* code given to project_eval
Codes ==
  {"1 + 1", "IO.puts(:hi)", "raise ArgumentError", "throw(:x)", "exit(:boom)",
   "Process.exit(self(), :kill)", "Process.sleep(:infinity)",
   "Process.flag(:trap_exit, true); Process.sleep(:infinity)",
   "Process.flag(:trap_exit, true); 1 + 1"}

\* what Code.eval_string does with the code inside the try of lines 147-152:
\* it returns a value, perhaps after printing; or it raises, throws or exits,
\* which the catch turns into {false, Exception.format(...)} (first line shown);
\* or the unit is killed, or never comes back; and it may set the unit to trap
\* exits on its way
Returns(success, result, io, traps) ==
  [kind |-> "returns", success |-> success, result |-> result, io |-> io, traps |-> traps]
Evaluate(code) ==
  CASE code = "1 + 1" -> Returns(TRUE, "2", "", FALSE)
    [] code = "IO.puts(:hi)" -> Returns(TRUE, ":ok", "hi\n", FALSE)
    [] code = "raise ArgumentError" ->
         Returns(FALSE, "** (ArgumentError) argument error", "", FALSE)
    [] code = "throw(:x)" -> Returns(FALSE, "** (throw) :x", "", FALSE)
    [] code = "exit(:boom)" -> Returns(FALSE, "** (exit) :boom", "", FALSE)
    [] code = "Process.exit(self(), :kill)" -> [kind |-> "killed", traps |-> FALSE]
    [] code = "Process.sleep(:infinity)" -> [kind |-> "hangs", traps |-> FALSE]
    [] code = "Process.flag(:trap_exit, true); Process.sleep(:infinity)" ->
         [kind |-> "hangs", traps |-> TRUE]
    [] code = "Process.flag(:trap_exit, true); 1 + 1" -> Returns(TRUE, "2", "", TRUE)

\* eval_with_captured_io, lines 144-161, for code that comes back
eval_with_captured_io(code) ==
  LET e == Evaluate(code)
  IN  IF e.result = ":\"do not show this result in output\"" THEN e.io
      ELSE IF ~e.success THEN e.result
      ELSE IF e.io = "" THEN e.result
      ELSE "IO:\n\n" \o e.io \o "\n\nResult:\n\n" \o e.result

\* a response: its status and its body, which is JSON or plain text; status 0
\* stands for a connection closed with nothing sent
JsonBody(value) == [type |-> "json", value |-> value]
TextBody(text) == [type |-> "text", text |-> text]
Response(status, body) == [tag |-> "response", status |-> status, body |-> body]
NoResponse == Response(0, TextBody(""))

\* lines 628 and 717
InvalidRequest == Response(400, JsonBody([error |-> "Invalid request"]))

\* lines 632 and 721-723
NotFound == Response(404, TextBody("Not Found"))

\* lines 605-608 and 661-673; the project of the model is my_app
Config ==
  Response(200, JsonBody([project_name |-> "my_app", framework_type |-> "embedded"]))

\* lines 617-620 and 683-697: the envelope of an operation's result
Envelope(id, r) ==
  IF r.tag = "ok"
    THEN [jsonrpc |-> "2.0", id |-> id,
          result |-> [content |-> <<[type |-> "text", text |-> r.text]>>]]
    ELSE [jsonrpc |-> "2.0", id |-> id,
          result |-> [content |-> <<[type |-> "text", text |-> r.text]>>,
                      isError |-> TRUE]]

\* lines 625, 707 and 712
EmptyResult(id) == Response(200, JsonBody([jsonrpc |-> "2.0", id |-> id, result |-> EmptyMap]))

\* the evaluation a request asks for; serving it takes several steps
Evaluation(id, code, timeout) ==
  [tag |-> "eval", id |-> id, code |-> code, timeout |-> timeout]

\* the map patterns of lines 612 and 677, of 704, and of 624 and 709
IsRpc(v) ==
  /\ v.json = "object"
  /\ {"jsonrpc", "id"} \subseteq DOMAIN v.fields
  /\ v.fields.jsonrpc = "2.0"
IsMethod(v, method) ==
  /\ IsRpc(v)
  /\ "method" \in DOMAIN v.fields
  /\ v.fields.method = method
IsToolsCall(v) == IsMethod(v, "tools/call") /\ "params" \in DOMAIN v.fields

\* lines 613-622 and 678-702: the tools/call clause, the same text in both
\* hosts; params["name"] raises when params is a list
ToolsCall(v, state) ==
  LET id == v.fields.id
      params == v.fields.params
  IN  IF params.json # "object" THEN Raise("ArgumentError", 500)
      ELSE LET name == MapGet(params.fields, "name")
               args == IF "arguments" \in DOMAIN params.fields
                         THEN params.fields.arguments.fields ELSE EmptyMap
           IN  IF name = "project_eval" /\ "code" \in DOMAIN args
                 THEN Evaluation(id, args.code,
                                 IF "timeout" \in DOMAIN args THEN args.timeout
                                 ELSE DefaultTimeout)
               ELSE LET r == dispatch(name, args, state)
                    IN  IF r.tag = "raise" THEN r
                        ELSE Response(200, JsonBody(Envelope(id, r)))

\* Pi.MCP.Http.route, lines 605-632
Http_route(req, state) ==
  IF req.method = "GET" /\ req.path = "/config" THEN Config
  ELSE IF req.method = "POST" /\ req.path = "/mcp"
    THEN IF req.body.json \in {"invalid", "empty"} THEN InvalidRequest
         ELSE IF IsToolsCall(req.body) THEN ToolsCall(req.body, state)
         ELSE IF IsRpc(req.body) THEN EmptyResult(req.body.fields.id)
         ELSE InvalidRequest
  ELSE NotFound

\* Plug.Parsers with the :json parser, line 658, on a request with a JSON
\* content type: a body that does not parse raises Plug.Parsers.ParseError, an
\* empty body gives no params, and JSON that is no object goes under "_json";
\* only POST, PUT, PATCH and DELETE bodies are parsed
Plug_Parsers(req) ==
  IF req.method # "POST" THEN JObject(EmptyMap)
  ELSE IF req.body.json = "invalid" THEN Raise("Plug.Parsers.ParseError", 400)
  ELSE IF req.body.json = "empty" THEN JObject(EmptyMap)
  ELSE IF req.body.json = "array" THEN JObject([_json |-> JArray])
  ELSE req.body

\* Pi.MCP.Router, lines 654-724: match, Plug.Parsers, dispatch
Router_call(req, state) ==
  LET body_params == Plug_Parsers(req)
  IN  IF "json" \in DOMAIN body_params
        THEN IF req.method = "GET" /\ req.path = "/config" THEN Config
             ELSE IF req.method = "POST" /\ req.path = "/mcp"
               THEN IF IsToolsCall(body_params) THEN ToolsCall(body_params, state)
                    ELSE IF IsMethod(body_params, "initialize")
                      THEN EmptyResult(body_params.fields.id)
                    ELSE IF IsRpc(body_params) THEN EmptyResult(body_params.fields.id)
                    ELSE InvalidRequest
             ELSE NotFound
        ELSE body_params

\* what the adapter sends when the plug raises: Bandit the status of the
\* exception, Cowboy 500, both without a body
AdapterError(server, plug_status) ==
  IF server = "bandit" THEN Response(plug_status, TextBody(""))
  ELSE Response(500, TextBody(""))

\* serve, lines 569-589, and the adapters of lines 743 and 753: what the host
\* makes of the route, for a request that is no evaluation; serve rescues the
\* exception and closes the socket
Serve(server, routed) ==
  IF routed.tag = "raise"
    THEN IF server = "gen_tcp" THEN NoResponse
         ELSE AdapterError(server, routed.plug_status)
    ELSE routed

----------------------------------------------------------------------------
(* The embedded service: boot, request handlers and evaluation units *)

\* lines 8-12, 649-651 and 740-760: --port 0 asks the OS for a port, which here
\* gives 49152. The boot picks Bandit, then Cowboy, then the
\* socket server, by what is loaded; Bandit and Plug.Cowboy come with Plug. Only
\* Bandit is given an address (ip: :loopback); Plug.Cowboy.http and
\* :gen_tcp.listen get none and listen on every interface. Cowboy's port is
\* reported as asked for, the others' as bound.
Boot(has_plug, has_bandit, has_cowboy, port) ==
  /\ http_server = "none"
  /\ (has_bandit \/ has_cowboy) => has_plug
  /\ \E os \in {49152} :
       LET bound == IF port = 0 THEN os ELSE port
       IN  /\ listener' = [ip |-> IF has_bandit THEN "loopback" ELSE "any",
                           port |-> bound, accepting |-> TRUE]
           /\ actual_port' = IF has_cowboy /\ ~has_bandit THEN port ELSE bound
  /\ http_server' = IF has_bandit THEN "bandit"
                    ELSE IF has_cowboy THEN "cowboy" ELSE "gen_tcp"
  /\ UNCHANGED <<logger, appended, handlers, units, exchanges>>
  /\ UNCHANGED clientVars

\* a handler that has not served anything
NewHandler == [pc |-> "new", mailbox |-> <<>>, unit |-> 0, exchange |-> 0]

\* the handler's state once it has answered: the socket server's process and
\* Cowboy's request process end with the request (lines 565 and 587); Bandit's
\* connection process goes on to the next request of a kept-alive connection
Answered(server) == IF server = "bandit" THEN "idle" ELSE "closed"

\* accept_loop and serve, lines 563-589, or the adapter: a request arrives and
\* is routed by the host that the boot chose. It is taken by a new process, or
\* with Bandit by the process of a connection that is idle. An evaluation
\* spawns its unit with spawn_monitor (lines 121-125) and the handler waits in
\* the receive of line 127, any other request is answered in the same step
Accept(h, req) ==
  /\ http_server # "none"
  /\ listener.accepting
  /\ Len(exchanges) < MaxHttp
  /\ \/ h = Len(handlers) + 1
     \/ h \in 1..Len(handlers) /\ http_server = "bandit" /\ handlers[h].pc = "idle"
  /\ LET routed == IF http_server = "gen_tcp" THEN Http_route(req, logger)
                   ELSE Router_call(req, logger)
         x == Len(exchanges) + 1
         u == Len(units) + 1
         HandlerOf == IF h \in 1..Len(handlers) THEN handlers[h] ELSE NewHandler
         SetHandler(r) == IF h \in 1..Len(handlers) THEN [handlers EXCEPT ![h] = r]
                          ELSE Append(handlers, r)
     IN  IF routed.tag = "eval"
           THEN /\ units' = Append(units,
                      [parent |-> h, code |-> routed.code, status |-> "running",
                       trap_exit |-> FALSE, monitored |-> TRUE, signal |-> FALSE])
                /\ handlers' = SetHandler([HandlerOf EXCEPT
                      !.pc = "receive", !.unit = u, !.exchange = x])
                /\ exchanges' = Append(exchanges,
                      [req |-> req, handler |-> h, unit |-> u, id |-> routed.id,
                       timeout |-> routed.timeout, outcomes |-> <<>>, resp |-> <<>>])
           ELSE /\ handlers' = SetHandler([HandlerOf EXCEPT
                      !.pc = IF routed.tag = "raise" THEN "closed"
                             ELSE Answered(http_server)])
                /\ exchanges' = Append(exchanges,
                      [req |-> req, handler |-> h, unit |-> 0, id |-> 0,
                       timeout |-> 0, outcomes |-> <<>>,
                       resp |-> <<Serve(http_server, routed)>>])
                /\ UNCHANGED units
  /\ UNCHANGED <<http_server, actual_port, listener, logger, appended>>
  /\ UNCHANGED clientVars

\* send(parent, msg): a message to a process that has ended is dropped
Send(hs, h, msgs) ==
  IF hs[h].pc = "closed" THEN hs ELSE [hs EXCEPT ![h].mailbox = @ \o msgs]

\* the unit ends: the monitor, if still there, delivers the message
\* {:DOWN, ref, :process, pid, reason}, the ref being the unit's
Down(u, reason) ==
  IF units[u].monitored THEN <<[type |-> "DOWN", ref |-> u, reason |-> reason]>> ELSE <<>>

\* lines 122-125: the code has come back and the unit sends {:result, result}
\* to parent, then ends normally; the message is kept with the unit it is from
UnitSends(u) ==
  /\ u \in 1..Len(units)
  /\ units[u].status = "running"
  /\ Evaluate(units[u].code).kind = "returns"
  /\ Evaluate(units[u].code).traps => units[u].trap_exit
  /\ handlers' = Send(handlers, units[u].parent,
                      <<[type |-> "result", from |-> u,
                         result |-> eval_with_captured_io(units[u].code)]>>
                      \o Down(u, "normal"))
  /\ units' = [units EXCEPT ![u].status = "exited"]
  /\ UNCHANGED <<http_server, actual_port, listener, logger, appended, exchanges>>
  /\ UNCHANGED clientVars

\* the evaluated code sets Process.flag(:trap_exit, true) in the unit
UnitTrapsExits(u) ==
  /\ u \in 1..Len(units)
  /\ units[u].status = "running"
  /\ Evaluate(units[u].code).traps
  /\ ~units[u].trap_exit
  /\ units' = [units EXCEPT ![u].trap_exit = TRUE]
  /\ UNCHANGED <<http_server, actual_port, listener, logger, appended, handlers, exchanges>>
  /\ UNCHANGED clientVars

\* the evaluated code has the unit killed before it sends anything
UnitKilled(u) ==
  /\ u \in 1..Len(units)
  /\ units[u].status = "running"
  /\ Evaluate(units[u].code).kind = "killed"
  /\ handlers' = Send(handlers, units[u].parent, Down(u, "killed"))
  /\ units' = [units EXCEPT ![u].status = "killed"]
  /\ UNCHANGED <<http_server, actual_port, listener, logger, appended, exchanges>>
  /\ UNCHANGED clientVars

\* the exit signal of Process.exit(pid, :brutal_kill), line 137, reaches the
\* unit: the reason is not :kill, so a unit that traps exits gets it as an
\* {:EXIT, from, :brutal_kill} message and runs on, and any other unit that is
\* still running ends
ExitSignal(u) ==
  /\ u \in 1..Len(units)
  /\ units[u].signal
  /\ units' = [units EXCEPT
                 ![u].signal = FALSE,
                 ![u].status = IF @ = "running" /\ ~units[u].trap_exit
                                 THEN "brutal_kill" ELSE @]
  /\ UNCHANGED <<http_server, actual_port, listener, logger, appended, handlers, exchanges>>
  /\ UNCHANGED clientVars

\* the process of a Bandit connection runs a GenServer loop between requests,
\* which drops the messages it does not know; a message that comes in after the
\* next request's data stays for the plug to find
Discard(h) ==
  /\ h \in 1..Len(handlers)
  /\ handlers[h].pc = "idle"
  /\ handlers[h].mailbox # <<>>
  /\ handlers' = [handlers EXCEPT ![h].mailbox = <<>>]
  /\ UNCHANGED <<http_server, actual_port, listener, logger, appended, units, exchanges>>
  /\ UNCHANGED clientVars

\* the patterns of the receive, lines 127-133: any {:result, _}, and the :DOWN
\* of this evaluation's monitor
Matches(msg, u) == msg.type = "result" \/ (msg.type = "DOWN" /\ msg.ref = u)

\* positions in the mailbox of handler h that the receive matches
Matched(h) ==
  {i \in 1..Len(handlers[h].mailbox) : Matches(handlers[h].mailbox[i], handlers[h].unit)}

\* Process.demonitor(ref, [:flush]): the :DOWN of ref leaves the mailbox
Flush(mailbox, u) ==
  LET Other(msg) == ~(msg.type = "DOWN" /\ msg.ref = u) IN SelectSeq(mailbox, Other)

\* the evaluation of handler h ends with the outcome r, which the host puts in
\* the envelope and sends (lines 616-622 and 682-702)
Respond(h, r, mailbox) ==
  /\ LET x == handlers[h].exchange
     IN  exchanges' = [exchanges EXCEPT ![x] =
           [@ EXCEPT !.outcomes = Append(@, r),
                     !.resp = Append(@, Response(200, JsonBody(Envelope(exchanges[x].id, r))))]]
  /\ handlers' = [handlers EXCEPT ![h] =
       [pc |-> Answered(http_server), mailbox |-> mailbox, unit |-> 0, exchange |-> 0]]

\* line 138
TimeoutError(timeout) == Error("Evaluation timed out after " \o ToString(timeout) \o "ms")

\* line 132; Exception.format_exit gives the reason's text
ExitError(reason) == Error("Process exited: " \o reason)

\* lines 127-133: the receive takes the first message of the mailbox that
\* matches; a result ends the monitor, a :DOWN is turned into an error
Receive(h) ==
  /\ h \in 1..Len(handlers)
  /\ handlers[h].pc = "receive"
  /\ Matched(h) # {}
  /\ LET u == handlers[h].unit
         i == CHOOSE j \in Matched(h) : \A k \in Matched(h) : j <= k
         msg == handlers[h].mailbox[i]
         rest == SubSeq(handlers[h].mailbox, 1, i - 1)
                 \o SubSeq(handlers[h].mailbox, i + 1, Len(handlers[h].mailbox))
     IN  IF msg.type = "result"
           THEN /\ Respond(h, Ok(msg.result), Flush(rest, u))
                /\ units' = [units EXCEPT ![u].monitored = FALSE]
           ELSE /\ Respond(h, ExitError(msg.reason), rest)
                /\ UNCHANGED units
  /\ UNCHANGED <<http_server, actual_port, listener, logger, appended>>
  /\ UNCHANGED clientVars

\* a receive without a deadline
TimerFires_Never(timeout) == FALSE

\* whether the after clause of the receive can fire: the timeout is a number of
\* milliseconds
TimerFires(timeout) == timeout >= 0

\* lines 134-139: the deadline passes with no matching message in the mailbox:
\* the monitor is dropped, the exit signal is sent, and the error names the
\* deadline
Timeout(h) ==
  /\ h \in 1..Len(handlers)
  /\ handlers[h].pc = "receive"
  /\ Matched(h) = {}
  /\ TimerFires(exchanges[handlers[h].exchange].timeout)
  /\ LET u == handlers[h].unit
         timeout == exchanges[handlers[h].exchange].timeout
     IN  /\ Respond(h, TimeoutError(timeout), Flush(handlers[h].mailbox, u))
         /\ units' = [units EXCEPT ![u].monitored = FALSE, ![u].signal = TRUE]
  /\ UNCHANGED <<http_server, actual_port, listener, logger, appended>>
  /\ UNCHANGED clientVars

----------------------------------------------------------------------------
(* The embedded service: requests and specifications *)

Get(path) == [method |-> "GET", path |-> path, body |-> NoBody]
Post(path, body) == [method |-> "POST", path |-> path, body |-> body]

\* a JSON-RPC request object with the fields given besides jsonrpc and id
Rpc(id, method) == [jsonrpc |-> "2.0", id |-> id, method |-> method]
WithParams(id, method, params) ==
  [jsonrpc |-> "2.0", id |-> id, method |-> method, params |-> params]

\* the POST of the extension's callTool, and of the tests' mcpCall
Call(id, name, args) ==
  Post("/mcp", JObject(WithParams(id, "tools/call",
                                  JObject([name |-> name, arguments |-> JObject(args)]))))

\* an evaluation request with the default deadline, and one with a deadline of
\* 50 ms
Eval(id, code) == Call(id, "project_eval", [code |-> code])
EvalSoon(id, code) == Call(id, "project_eval", [code |-> code, timeout |-> 50])

\* requests that are no tools/call, or none that is well formed
MalformedRequests ==
  {Post("/mcp", NotJson), Post("/mcp", NoBody), Post("/mcp", JArray),
   Post("/mcp", JObject([jsonrpc |-> "2.0", method |-> "notifications/initialized"])),
   Post("/mcp", JObject([jsonrpc |-> "1.0", id |-> 1, method |-> "initialize"]))}
  \cup {Post("/mcp", JObject(Rpc(id, "ping"))) : id \in RpcIds}
  \cup {Post("/mcp", JObject(Rpc(id, "tools/call"))) : id \in RpcIds}
  \cup {Post("/mcp", JObject(WithParams(id, "tools/call", JArray))) : id \in RpcIds}

\* the handshake
InitializeRequests ==
  {Post("/mcp", JObject(WithParams(id, "initialize", JObject(EmptyMap)))) : id \in RpcIds}

\* requests for other paths and methods
OtherRequests == {Get("/config"), Get("/mcp"), Post("/other", NotJson)}

\* calls of operations that take one step: an operation that does not exist, a
\* call without a name, get_logs with and without its parameter and with filters
\* that are invalid, and project_eval without code
ToolCalls ==
  {Call(id, "nope", EmptyMap) : id \in RpcIds}
  \cup {Post("/mcp", JObject(WithParams(1, "tools/call", JObject(EmptyMap)))),
        Call(1, "get_logs", [tail |-> 10]),
        Call(1, "get_logs", [tail |-> 10, level |-> "error", grep |-> "a"]),
        Call(1, "get_logs", [tail |-> 10, level |-> "bogus"]),
        Call(1, "get_logs", [tail |-> 10, grep |-> "("]),
        Call(1, "get_logs", EmptyMap),
        Call(1, "project_eval", EmptyMap)}

\* the embedded service receiving the requests RS
Service(RS) ==
  \/ \E has_plug \in BOOLEAN, has_bandit \in BOOLEAN, has_cowboy \in BOOLEAN,
        port \in {0, 4041} : Boot(has_plug, has_bandit, has_cowboy, port)
  \/ \E h \in 1..MaxHttp, req \in RS : Accept(h, req)
  \/ \E u \in 1..MaxHttp : UnitSends(u)
  \/ \E u \in 1..MaxHttp : UnitTrapsExits(u)
  \/ \E u \in 1..MaxHttp : UnitKilled(u)
  \/ \E u \in 1..MaxHttp : ExitSignal(u)
  \/ \E h \in 1..MaxHttp : Receive(h)
  \/ \E h \in 1..MaxHttp : Timeout(h)
  \/ \E h \in 1..MaxHttp : Discard(h)

\* the protocol: requests of every shape, and evaluations
NextServe ==
  Service(MalformedRequests \cup InitializeRequests \cup OtherRequests \cup ToolCalls
          \cup {Eval(1, "1 + 1"), Eval(1, "raise ArgumentError"),
                EvalSoon(2, "Process.flag(:trap_exit, true); 1 + 1"),
                EvalSoon(2, "Process.exit(self(), :kill)")})

SpecServe == Init /\ [][NextServe]_vars

\* evaluations of every kind of code, with both deadlines
NextEval == Service({Eval(1, code) : code \in Codes} \cup {EvalSoon(2, code) : code \in Codes})

SpecEval == Init /\ [][NextEval]_vars

----------------------------------------------------------------------------
(* The embedded service: properties *)

\* the exchanges so far, and those that are answered
Exchanges == 1..Len(exchanges)
HasAnswer(x) == exchanges[x].resp # <<>>

\* a POST /mcp whose body is no JSON
InvalidJsonPost(req) == req.method = "POST" /\ req.path = "/mcp" /\ req.body = NotJson

\* C22 as stated: every POST /mcp whose body is not valid JSON is answered with
\* status 400 and the body {"error": "Invalid request"}, whichever transport
\* hosts the service, and the listener goes on accepting.
C22_InvalidJson400 ==
  \A x \in Exchanges :
    InvalidJsonPost(exchanges[x].req) =>
      /\ exchanges[x].resp = <<InvalidRequest>>
      /\ listener.accepting

\* under Bandit or Cowboy a POST /mcp of invalid JSON has been answered without
\* the error body, and the next request has been served
C22_Witness ==
  \E x \in Exchanges :
    /\ InvalidJsonPost(exchanges[x].req)
    /\ http_server \in {"bandit", "cowboy"}
    /\ exchanges[x].resp = <<AdapterError(http_server, 400)>>
    /\ exchanges[x].resp # <<InvalidRequest>>
    /\ x + 1 \in Exchanges
    /\ exchanges[x + 1].resp = <<Config>>

\* the result of a call that is not an error, and of one that is
OkAnswer(id, text) == Response(200, JsonBody(Envelope(id, Ok(text))))
ErrorAnswer(id, message) == Response(200, JsonBody(Envelope(id, Error(message))))

\* C23: a tools/call of an operation that does not exist is answered with
\* status 200 and an envelope that carries the request's id, isError true and
\* the error text; and a valid call received after it is answered as ever.
C23_UnknownTool ==
  \A x \in Exchanges, id \in RpcIds :
    exchanges[x].req = Call(id, "nope", EmptyMap) =>
      /\ exchanges[x].resp = <<ErrorAnswer(id, "Unknown tool: nope")>>
      /\ exchanges[x].resp[1].body.value.result.isError
      /\ listener.accepting
      /\ \A y \in Exchanges :
           (y > x /\ exchanges[y].req = Call(1, "get_logs", [tail |-> 10])) =>
             exchanges[y].resp = <<OkAnswer(1, "")>>

\* an unknown operation has been called with id 2 and answered, and a get_logs
\* call on the same Bandit connection after it has been answered
C23_Witness ==
  /\ Len(exchanges) = 2
  /\ http_server = "bandit"
  /\ exchanges[1].req = Call(2, "nope", EmptyMap)
  /\ exchanges[1].resp[1].status = 200
  /\ exchanges[1].resp[1].body.value.id = 2
  /\ exchanges[2].req = Call(1, "get_logs", [tail |-> 10])
  /\ exchanges[2].handler = exchanges[1].handler
  /\ exchanges[2].resp = <<OkAnswer(1, "")>>

\* C24 as stated: a POST /mcp that is a well-formed tools/call is answered with
\* a result envelope, one with method initialize with an empty result, and one
\* of any other shape with status 400 and the body {"error": "Invalid request"}.
C24_Shapes ==
  \A x \in Exchanges :
    LET req == exchanges[x].req
    IN  /\ (req \in ToolCalls /\ HasAnswer(x)) =>
             /\ exchanges[x].resp[1].status = 200
             /\ "content" \in DOMAIN exchanges[x].resp[1].body.value.result
        /\ req \in InitializeRequests =>
             exchanges[x].resp = <<EmptyResult(req.body.fields.id)>>
        /\ req \in MalformedRequests => exchanges[x].resp = <<InvalidRequest>>

\* a request with a method that is neither tools/call nor initialize, and a
\* tools/call without params, have been answered with an empty result
C24_Witness ==
  /\ Len(exchanges) = 2
  /\ exchanges[1].req = Post("/mcp", JObject(Rpc(1, "ping")))
  /\ exchanges[1].resp = <<EmptyResult(1)>>
  /\ exchanges[2].req = Post("/mcp", JObject(Rpc(2, "tools/call")))
  /\ exchanges[2].resp = <<EmptyResult(2)>>

\* C25 as stated: whatever the request, the Plug router under its adapter and
\* the socket server answer with the same status and the same body; checked on
\* every request that is answered in one step.
C25_SameAnswer ==
  \A x \in Exchanges :
    exchanges[x].unit = 0 =>
      /\ exchanges[x].resp = <<Serve("gen_tcp", Http_route(exchanges[x].req, logger))>>
      /\ exchanges[x].resp = <<Serve("bandit", Router_call(exchanges[x].req, logger))>>
      /\ exchanges[x].resp = <<Serve("cowboy", Router_call(exchanges[x].req, logger))>>

\* a get_logs call with a level that does not exist has been received by the
\* socket server, which sent nothing, where the router's adapter answers 500
C25_Witness ==
  \E x \in Exchanges :
    /\ http_server = "gen_tcp"
    /\ exchanges[x].req = Call(1, "get_logs", [tail |-> 10, level |-> "bogus"])
    /\ exchanges[x].resp = <<NoResponse>>
    /\ Serve("bandit", Router_call(exchanges[x].req, logger)) = Response(500, TextBody(""))

\* C26 as stated: once the service has booted, whichever transport it chose,
\* its listener is bound to the loopback interface.
C26_Loopback == http_server # "none" => listener.ip = "loopback"

\* the service has booted with the socket server, listening on every interface
C26_Witness ==
  /\ http_server = "gen_tcp"
  /\ listener.accepting
  /\ listener.ip = "any"

\* the evaluations with the deadline timer running: a receive with an after
\* clause is left when its time is up
SpecEvalLive ==
  /\ Init
  /\ [][NextEval]_vars
  /\ \A h \in 1..MaxHttp : WF_vars(Receive(h)) /\ WF_vars(Timeout(h))

\* the exchanges that are evaluations
EvalExchanges == {x \in Exchanges : exchanges[x].unit # 0}

\* the handler of exchange x is waiting in the receive of its evaluation
Waiting(x) ==
  /\ handlers[exchanges[x].handler].pc = "receive"
  /\ handlers[exchanges[x].handler].exchange = x

C28_TimeoutKills ==
  [][/\ \A h \in 1..Len(handlers) :
          Timeout(h) =>
            exchanges'[handlers[h].exchange].outcomes =
              <<TimeoutError(exchanges[handlers[h].exchange].timeout)>>
     /\ \A u \in 1..Len(units) :
          ExitSignal(u) => units'[u].status # "running"]_vars

\* an evaluation with a deadline of 50 ms has timed out, the exit signal has
\* reached its unit, which traps exits, and the unit is running
C28_Witness ==
  \E x \in EvalExchanges :
    /\ exchanges[x].outcomes = <<Error("Evaluation timed out after 50ms")>>
    /\ units[exchanges[x].unit].trap_exit
    /\ ~units[exchanges[x].unit].signal
    /\ units[exchanges[x].unit].status = "running"

\* get_logs calls with a filter that is invalid
InvalidFilterCalls ==
  {Call(1, "get_logs", [tail |-> 10, level |-> "bogus"]),
   Call(1, "get_logs", [tail |-> 10, grep |-> "("])}

\* the evaluated code raises, throws or exits
Faults(code) == Evaluate(code).kind = "returns" /\ ~Evaluate(code).success

\* C29 as stated: a call whose operation fails, be it an evaluation whose code
\* raises, throws or exits or a get_logs with an invalid filter, is answered
\* with status 200 and an envelope with isError true and a text, and the
\* listener goes on accepting.
C29_FaultIsError ==
  \A x \in Exchanges :
    (\/ exchanges[x].req \in InvalidFilterCalls
     \/ /\ x \in EvalExchanges
        /\ HasAnswer(x)
        /\ Faults(units[exchanges[x].unit].code)) =>
      /\ Len(exchanges[x].resp) = 1
      /\ exchanges[x].resp[1].status = 200
      /\ "isError" \in DOMAIN exchanges[x].resp[1].body.value.result
      /\ exchanges[x].resp[1].body.value.result.isError
      /\ exchanges[x].resp[1].body.value.result.content[1].text # ""
      /\ listener.accepting

\* an evaluation whose code raises has been answered with the formatted
\* exception and no isError, and the request after it has been served
C29_Witness ==
  /\ Len(exchanges) = 2
  /\ exchanges[1].req = Eval(1, "raise ArgumentError")
  /\ exchanges[1].resp = <<OkAnswer(1, "** (ArgumentError) argument error")>>
  /\ "isError" \notin DOMAIN exchanges[1].resp[1].body.value.result
  /\ exchanges[2].resp = <<Config>>

----------------------------------------------------------------------------
(* The log buffer read through the service *)

\* a get_logs call with the filters given, NullStr for a filter left out
LogRead(n, level, grep) ==
  Call(1, "get_logs",
       IF level = NullStr /\ grep = NullStr THEN [tail |-> n]
       ELSE IF grep = NullStr THEN [tail |-> n, level |-> level]
       ELSE IF level = NullStr THEN [tail |-> n, grep |-> grep]
       ELSE [tail |-> n, level |-> level, grep |-> grep])

\* the service booted on a port, events logged, the buffer cleared, and read
\* over one connection, which Bandit keeps alive for a second read
NextRead ==
  \/ \E has_plug \in BOOLEAN, has_bandit \in BOOLEAN, has_cowboy \in BOOLEAN :
       Boot(has_plug, has_bandit, has_cowboy, 4041)
  \/ \E e \in {<<"error", "ab">>, <<"error", "B">>, <<"info", "a">>} : Log(FALSE, e[1], e[2])
  \/ clear_logs
  \/ \E req \in {LogRead(n, level, grep) :
                    n \in {0, 1, 2}, level \in {NullStr, "error"}, grep \in {NullStr, "b"}} :
       Accept(1, req)

SpecRead == Init /\ [][NextRead]_vars

\* the entries of the buffer that pass both filters, oldest first
Passing(level, grep) ==
  LET Pass(e) == /\ level = NullStr \/ e.level = level
                 /\ grep = NullStr \/ RegexMatch(grep, e.message)
  IN  SelectSeq(logger.logs, Pass)

\* C31: a read with a count n >= 0 and two filters returns the messages of the
\* last min(n, m) of the m buffer entries that pass both filters, in the order
\* they were inserted, and it leaves the buffer as it was.
C31_FilterThenTruncate ==
  [][Len(exchanges') > Len(exchanges) =>
       LET args == exchanges'[Len(exchanges')].req.body.fields.params.fields.arguments.fields
           n == args.tail
           passing == Passing(MapGet(args, "level"), MapGet(args, "grep"))
           m == Len(passing)
           k == IF n < m THEN n ELSE m
           last == [i \in 1..k |-> passing[m - k + i].message]
       IN  /\ n >= 0
           /\ exchanges'[Len(exchanges')].resp = <<OkAnswer(1, Enum_join(last))>>
           /\ logger' = logger]_vars

\* a buffer whose newest entry passes neither filter and whose two older
\* entries pass both has been read with both filters: with a count of two both
\* older messages came back in the order of insertion, with a count of one the
\* newer of them
C31_Witness ==
  /\ logger.logs = <<LogEntry("error", "ab"), LogEntry("error", "B"), LogEntry("info", "a")>>
  /\ Len(exchanges) = 2
  /\ exchanges[1].req = LogRead(2, "error", "b")
  /\ exchanges[1].resp = <<OkAnswer(1, "ab\nB")>>
  /\ exchanges[2].req = LogRead(1, "error", "b")
  /\ exchanges[2].resp = <<OkAnswer(1, "B")>>

----------------------------------------------------------------------------
(* The broker: readiness, isolation, expiry and recovery *)

\* the chunk holds a whole readiness line
HoldsReadinessLine(chunk) ==
  \E i \in 1..Len(chunk), port \in ReadyPorts :
    i + 2 <= Len(chunk) /\ SubSeq(chunk, i, i + 2) = ReadinessLine(port)

\* C32 as stated: a chunk of the child's stdout that holds no readiness line
\* leaves the records, the cache and the status as they were and notifies
\* nobody, and a record becomes ready only in a step that delivers a readiness
\* line to it.
C32_OnlyReadinessLine ==
  [][/\ \A p \in 1..MaxProcs, chunk \in ChunksOver({4041}) :
          (StdoutData(p, chunk) /\ ~HoldsReadinessLine(chunk)) =>
            /\ UNCHANGED <<entries, connectionCache, embeddedProcesses, embeddedFailed>>
            /\ statusCalls' = <<>>
     /\ \A p \in 1..Len(entries) :
          (~entries[p].ready /\ entries'[p].ready) =>
             \E chunk \in ChunksOver({4041}) :
               HoldsReadinessLine(chunk) /\ StdoutData(p, chunk)]_vars

\* a chunk that holds the marker and no port has just made a running child's
\* record ready without an endpoint, and the callback was told embedded
C32_Witness ==
  \E p \in 1..Len(entries) :
    /\ entries[p].ready
    /\ entries[p].proc.status = "running"
    /\ entries[p].port = 0
    /\ entries[p].url = ""
    /\ statusCalls = <<[cwd |-> entries[p].cwd, kind |-> "embedded"]>>

\* two project directories resolved in turn, their children, and the clock
NextTwo ==
  \/ Resolve({1}, Dirs, OwnMixFiles, OwnResponses)
  \/ Child({<<Text>>, ReadinessLine(4041)})
  \/ \E t \in Times : Tick(t)

SpecTwo == Init /\ [][NextTwo]_vars

\* what the broker holds for the directory d: its cache entry, its process
\* record and its failed mark
Held(cache, procs, records, failed, d) ==
  <<IF d \in DOMAIN cache THEN <<cache[d]>> ELSE <<>>,
    IF d \in DOMAIN procs THEN <<procs[d], records[procs[d]]>> ELSE <<>>,
    d \in failed>>

\* C33: a step of a resolveUrl call for one directory, and a stdout, exit or
\* error event of one directory's child, change the cache entry, the process
\* record and the failed mark of no other directory.
C33_Isolation ==
  [][\A d \in Dirs : \A other \in Dirs \ {d} :
       (\/ returned' # <<>> /\ returned'[1].cwd = d
        \/ \E c \in Calls : calls[c].cwd = d /\ calls'[c] # calls[c]
        \/ \E c \in Calls : calls'[c].cwd = d /\ calls'[c] # calls[c]
        \/ \E p \in 1..Len(entries) : entries[p].cwd = d /\ entries'[p] # entries[p]
        \/ \E p \in 1..Len(entries), chunk \in {<<Text>>, ReadinessLine(4041)} :
             entries[p].cwd = d /\ StdoutData(p, chunk))
       => Held(connectionCache', embeddedProcesses', entries', embeddedFailed', other)
            = Held(connectionCache, embeddedProcesses, entries, embeddedFailed, other)]_vars

\* both directories hold something, and the child of one has just exited
\* while the other directory's child is ready and its endpoint is cached
C33_Witness ==
  \E d \in Dirs : \E other \in Dirs \ {d} :
    /\ \E p \in 1..Len(entries) : entries[p].cwd = d /\ entries[p].proc.status = "exited"
    /\ d \in embeddedFailed
    /\ ~MapHas(embeddedProcesses, d)
    /\ MapHas(embeddedProcesses, other)
    /\ entries[embeddedProcesses[other]].ready
    /\ MapHas(connectionCache, other)
    /\ connectionCache[other].kind = "embedded"

\* the cache entry of d is older than the TTL
Expired(d) == MapHas(connectionCache, d) /\ now - connectionCache[d].timestamp >= CACHE_TTL

\* C34 as stated: no read of the cache reflects an entry older than the TTL:
\* the connection state of a directory whose entry has expired is what it is
\* without the entry, and resolveUrl returns from the cache only an entry that
\* is younger than the TTL.
C34_NoExpiredRead ==
  /\ [](\A d \in OneDir :
          Expired(d) =>
            getConnectionKind(d) = IF EmbeddedReady(d) THEN "embedded"
                                   ELSE IF MapHas(embeddedProcesses, d) THEN "starting"
                                   ELSE "null")
  /\ [][\A c \in Calls, d \in OneDir : ResolveUrlCached(c, d) => ~Expired(d)]_vars

\* a native service was cached, the TTL has passed, a resolveUrl call has found
\* nothing and returned null with no child spawned, and the connection state is
\* still native
C34_Witness ==
  \E d \in OneDir :
    /\ Expired(d)
    /\ connectionCache[d].kind = "native"
    /\ ~MapHas(embeddedProcesses, d)
    /\ returned # <<>>
    /\ returned[1].cwd = d
    /\ returned[1].ret = JsNull
    /\ getConnectionKind(d) = "native"

\* C35 as stated: once the boot has printed the readiness line, which names
\* actual_port, the listener accepts connections on that port, whichever
\* transport was chosen and whether the port was given or left to the OS.
C35_ReadyMeansListening ==
  http_server # "none" => (listener.accepting /\ listener.port = actual_port)

\* booted with Cowboy and --port 0: the line names port 0 while the listener
\* accepts on the port the OS chose, where a request has been served
C35_Witness ==
  /\ http_server = "cowboy"
  /\ actual_port = 0
  /\ listener.accepting
  /\ listener.port # 0
  /\ Len(exchanges) > 0
  /\ exchanges[1].resp = <<Config>>

\* the child p was stopped: stopEmbedded killed it and removed its record
Stopped(p) == entries[p].proc.killed /\ entries[p].proc.status # "exited"

\* the record of the directory d belongs to a child that runs
LiveRecord(d) ==
  /\ MapHas(embeddedProcesses, d)
  /\ entries[embeddedProcesses[d]].proc.status = "running"
  /\ ~entries[embeddedProcesses[d]].proc.killed

\* C36 as stated: an exit, error or stdout event of a child that was stopped,
\* arriving when a newer child of the same directory holds the record, leaves
\* that record and the failed marks as they were, so that the newer child keeps
\* its record.
C36_OwnRecordOnly ==
  [][\A p \in 1..Len(entries) :
       (/\ Stopped(p)
        /\ entries'[p] # entries[p]
        /\ LiveRecord(entries[p].cwd)
        /\ embeddedProcesses[entries[p].cwd] # p)
       => /\ embeddedProcesses' = embeddedProcesses
          /\ embeddedFailed' = embeddedFailed
          /\ entries'[embeddedProcesses[entries[p].cwd]]
               = entries[embeddedProcesses[entries[p].cwd]]]_vars

\* a child was stopped, a newer child was spawned for the directory, and the
\* exit of the stopped child has removed the record: the newer child runs with
\* no record and the directory is marked failed
C36_Witness ==
  \E p \in 1..Len(entries), q \in 1..Len(entries) :
    /\ p < q
    /\ entries[p].cwd = entries[q].cwd
    /\ entries[p].proc.status = "exited"
    /\ entries[q].proc.status = "running"
    /\ ~entries[q].proc.killed
    /\ ~MapHas(embeddedProcesses, entries[q].cwd)
    /\ entries[q].cwd \in embeddedFailed

\* C37 as stated: a cache entry of kind embedded for a directory implies a
\* ready process record for the directory with the endpoint the entry holds.
C37_CacheRecordCoherence ==
  \A d \in OneDir :
    (MapHas(connectionCache, d) /\ connectionCache[d].kind = "embedded") =>
      /\ EmbeddedReady(d)
      /\ GetEmbedded(d).url = connectionCache[d].url

\* the child was stopped and no record is left, and a resolveUrl call has
\* returned its endpoint from the cache
C37_Witness ==
  \E d \in OneDir, p \in 1..Len(entries) :
    /\ entries[p].cwd = d
    /\ entries[p].proc.killed
    /\ entries[p].url = EmbeddedUrl(4041)
    /\ ~MapHas(embeddedProcesses, d)
    /\ MapHas(connectionCache, d)
    /\ connectionCache[d].kind = "embedded"
    /\ returned # <<>>
    /\ returned[1].ret = Conn(entries[p].url, "embedded")

\* C38 as stated: when the status callback is invoked with a kind for a
\* directory, the connection state of that directory is that kind.
C38_CallbackAgreesWithQuery ==
  \A i \in 1..Len(statusCalls) :
    getConnectionKind(statusCalls[i].cwd) = statusCalls[i].kind

\* the error event of a child has just told the callback null while a native
\* entry is in the cache, and the connection state is native
C38_Witness ==
  /\ statusCalls # <<>>
  /\ statusCalls[1].kind = "null"
  /\ \E p \in 1..Len(entries) :
       entries[p].cwd = statusCalls[1].cwd /\ entries[p].proc.status = "errored"
  /\ MapHas(connectionCache, statusCalls[1].cwd)
  /\ getConnectionKind(statusCalls[1].cwd) = "native"

\* C39 as stated: the result that the receive of an evaluation takes was sent
\* by the unit of that evaluation, never by the unit of an earlier one.
C39_OwnResult ==
  [][\A h \in 1..Len(handlers) :
       Receive(h) =>
         LET i == CHOOSE j \in Matched(h) : \A k \in Matched(h) : j <= k
             msg == handlers[h].mailbox[i]
         IN  msg.type = "result" => msg.from = handlers[h].unit]_vars

\* on one connection an evaluation has timed out, its unit has sent its result
\* afterwards and ended, and the next evaluation has that result for its
\* outcome while its own unit is still running
C39_Witness ==
  /\ Len(exchanges) = 2
  /\ exchanges[1].handler = exchanges[2].handler
  /\ exchanges[1].outcomes = <<TimeoutError(exchanges[1].timeout)>>
  /\ units[exchanges[1].unit].status = "exited"
  /\ exchanges[2].outcomes # <<>>
  /\ exchanges[2].outcomes[1].tag = "ok"
  /\ units[exchanges[2].unit].status = "running"
  /\ exchanges[2].outcomes[1] # Ok(eval_with_captured_io(units[exchanges[2].unit].code))

\* C40 as stated: the exit of a running child that had become ready leaves its
\* directory without a failed mark, and a resolveUrl call that then finds no
\* native service, no record and no failed mark spawns a new child.
C40_Recovery ==
  [][/\ \A p \in 1..Len(entries) :
          (Exits(p) /\ entries[p].ready /\ entries[p].proc.status = "running"
             /\ ~entries[p].proc.killed)
            => entries[p].cwd \notin embeddedFailed'
     /\ \A c \in Calls :
          (/\ Finishes(c)
           /\ returned'[1].ret = JsNull
           /\ ~MapHas(embeddedProcesses, calls[c].cwd)
           /\ calls[c].cwd \notin embeddedFailed)
            => returned'[1].spawned]_vars

\* a child was stopped before it was ready, a newer child of the directory
\* became ready, and the exit of the stopped child has marked the directory
\* failed: the ready child runs in a directory that will get no other child
C40_Witness ==
  \E p \in 1..Len(entries), q \in 1..Len(entries) :
    /\ p < q
    /\ entries[p].cwd = entries[q].cwd
    /\ entries[p].proc.status = "exited"
    /\ entries[q].proc.status = "running"
    /\ ~entries[q].proc.killed
    /\ entries[q].ready
    /\ entries[q].url = EmbeddedUrl(4041)
    /\ entries[q].cwd \in embeddedFailed

====
